---- MODULE Spec2Model ----
(***************************************************************************)
(* DroidAuto: the instruction-execution control loop of the socket server, *)
(* the response normalizer and the bounded session history of aiService.   *)
(*                                                                         *)
(* JavaScript objects are functions from field names to values: a field    *)
(* that is undefined is a name outside the DOMAIN, `delete o.f` restricts  *)
(* the domain and `{...o, f: v}` extends it.                               *)
(***************************************************************************)
EXTENDS Integers, Sequences, FiniteSets, TLC

VARIABLES
  nRaw,      \* normalizer: the API response handed to parseModelResponse
  nOut,      \* normalizer: result of parseModelResponse (current aiService)
  nOutOld,   \* normalizer: result of the earlier aiService revision
  nPhase,    \* normalizer: "raw" before the call, "parsed" after it
  stack,     \* loop: per instruction, the chain of suspended async calls (top first)
  tstate,    \* loop: per instruction "idle" | "running" | "done"
  trace,     \* loop: per instruction, the I/O calls made and the events emitted
  sockCtx,   \* loop: socket.sessionContext, an object id (0 = undefined)
  ctxObjs,   \* heap: the SessionContext objects [history, lastOperation]
  histArrs,  \* heap: the history arrays the objects refer to
  limits,    \* loop: [instr, rounds, raws], how much of the loop is explored
             \*       and the answers the model gateway may give
  rounds,    \* loop: number of LLM round-trips answered so far
  isProcessing, \* client: the processing flag of the page
  lastRoundTrip, \* loop: history item of the latest completed round-trip
  sAll,      \* session: every item appended so far, in append order
  pIn,       \* services: the argument of the service function that is called
  pOut,      \* services: what the call produced
  pPhase,    \* services: "called" before the function has run, "returned" after
  sessions,  \* routes: the session store, session id -> SessionContext object id
  reqs,      \* routes: the POST /instruction requests started so far
  reply,     \* routes: the latest HTTP response sent, with the request (`to`)
             \*         it answers
  now        \* routes: the reading of Date.now()

normVars == <<nRaw, nOut, nOutOld, nPhase>>

loopVars == <<stack, tstate, trace, sockCtx, limits, rounds, isProcessing, lastRoundTrip>>

heapVars == <<ctxObjs, histArrs>>

pureVars == <<pIn, pOut, pPhase>>

routeVars == <<sessions, reqs, reply, now>>

vars == <<nRaw, nOut, nOutOld, nPhase, stack, tstate, trace, sockCtx, ctxObjs,
          histArrs, limits, rounds, isProcessing, lastRoundTrip, sAll,
          pIn, pOut, pPhase, sessions, reqs, reply, now>>

(***************************************************************************)
(* Bounds of the model.                                                    *)
(***************************************************************************)
NormMaxCmds == 2    \* longest raw command list handed to the normalizer

MaxInstr == 1       \* instructions submitted on the socket

MaxRounds == 3      \* LLM round-trips answered, over all instructions

ConcInstr == 2      \* the same two limits in the specification in which a
                    \* second instruction arrives while the first loop runs
ConcRounds == 3

MaxBatch == 2       \* longest command list of a response in the loop

MaxAppends == 7     \* appends to one SessionContext in the session specification

RepairMaxCmds == 2  \* longest command list in the specification of command repair

BoundsMaxCoord == 12  \* largest coordinate written into a bounds string

FindMaxNodes == 4    \* most elements of a tree handed to findClickableElements

ExecMaxInner == 2   \* longest command list of a composite handed to executeCommand

FaultRounds == 3    \* LLM round-trips in the specification of the loop in which
                    \* the model answers with composite and malformed commands

CorrBatch == 2      \* length of the lists of corrective commands in the
                    \* specification of the correction round

CorrRounds == 2     \* LLM round-trips in that specification

PromptMaxHistory == 4   \* longest history handed to the prompt builders

FormatMaxChildren == 6  \* most children of a node of the rendered element trees

LayoutMaxNodes == 4     \* most nodes of a parsed capture

LiveRounds == 3         \* LLM round-trips in the specification with fairness

DiscRounds == 2     \* LLM round-trips in the specification of the loop whose
                    \* page disconnects

RouteMaxPosts == 2  \* POST /instruction requests started in the specification of
                    \* the HTTP session surface

SurfaceRounds == 3  \* LLM round-trips in the specification of the loop in which
                    \* the gateway hands back responses the normalizer rejects

(***************************************************************************)
(* Object helpers.                                                         *)
(***************************************************************************)
Has(o, f) == f \in DOMAIN o

Put(o, f, v) == [g \in (DOMAIN o) \cup {f} |-> IF g = f THEN v ELSE o[g]]

Del(o, f) == [g \in (DOMAIN o) \ {f} |-> o[g]]

EmptyObj == [g \in {} |-> 0]

\* x.f || dflt for an optional boolean field
BoolOr(o, f, dflt) == IF Has(o, f) THEN (o[f] \/ dflt) ELSE dflt

\* all sequences over S of length 0..n
SeqsUpTo(S, n) == UNION {[1..k -> S] : k \in 0..n}

(***************************************************************************)
(* aiService: command repair (normalizeCommand).                           *)
(***************************************************************************)
\* first repair: `action` used instead of `type`
RenameAction(c) ==
  IF Has(c, "action") /\ ~Has(c, "type")
  THEN Del(Put(c, "type", c["action"]), "action")
  ELSE c

\* second repair: click / tap with a two-element coordinate
RepairTap(c) ==
  IF Has(c, "type") /\
     (c["type"] = "click" \/
      (c["type"] = "tap" /\ Has(c, "coordinate") /\ Len(c["coordinate"]) = 2))
  THEN LET t == Put(c, "type", "tap")
       IN IF Has(t, "coordinate") /\ Len(t["coordinate"]) = 2
          THEN Del(Put(Put(t, "x", t["coordinate"][1]), "y", t["coordinate"][2]),
                   "coordinate")
          ELSE t
  ELSE c

\* a swipe repair that also rewrites a swipe without coordinate arrays
RepairSwipeAlways(c) ==
  IF Has(c, "type") /\ c["type"] = "swipe"
  THEN Put(Put(Put(Put(Del(Del(c, "coordinate"), "coordinate2"),
                       "startX", 0), "startY", 0), "endX", 0), "endY", 0)
  ELSE c

\* third repair: swipe with coordinate pairs or one four-element coordinate
RepairSwipe(c) ==
  IF Has(c, "type") /\ c["type"] = "swipe"
  THEN IF Has(c, "coordinate") /\ Has(c, "coordinate2")
       THEN Del(Del(Put(Put(Put(Put(c, "startX", c["coordinate"][1]),
                                    "startY", c["coordinate"][2]),
                                "endX", c["coordinate2"][1]),
                            "endY", c["coordinate2"][2]),
                    "coordinate"), "coordinate2")
       ELSE IF Has(c, "coordinate") /\ Len(c["coordinate"]) = 4
       THEN Del(Put(Put(Put(Put(c, "startX", c["coordinate"][1]),
                                "startY", c["coordinate"][2]),
                            "endX", c["coordinate"][3]),
                        "endY", c["coordinate"][4]),
                "coordinate")
       ELSE c
  ELSE c

normalizeCommand(cmd) == RepairSwipe(RepairTap(RenameAction(cmd)))

(***************************************************************************)
(* aiService: parseModelResponse.                                          *)
(*                                                                         *)
(* An API response is [choices, content, jsonKind, json, cmdSec, thinkSec]:*)
(*   choices  - FALSE when response.choices is missing or empty            *)
(*   content  - "null" when message.content is no string, else "str"       *)
(*   jsonKind - "nomatch": neither JSON regex matches the content          *)
(*              "syntaxerror": JSON.parse throws                           *)
(*              "badcommands": parsed, but commands is not an array        *)
(*                             (commands.map throws)                       *)
(*              "object": parsed object, commands absent or an array       *)
(*   json     - the parsed object (EmptyObj unless jsonKind = "object")    *)
(*   cmdSec / thinkSec - the trimmed text captured by the labelled-section *)
(*              regexes, "" when the regex does not match                  *)
(***************************************************************************)
NoThinking == "no-analysis"        \* '无分析过程'

NoParseThinking == "unparsable"    \* '无法解析思考过程'

FailedThinking == "parse-failed"   \* '响应解析失败'

InvalidApiMsg == "invalid-api-response"

TypeErrorMsg == "type-error"

\* defaults applied to every command after repair
DefaultFlags(cmd, parsed) ==
  LET a == IF ~Has(cmd, "isTaskComplete")
           THEN Put(cmd, "isTaskComplete", BoolOr(parsed, "isTaskComplete", FALSE))
           ELSE cmd
  IN IF ~Has(a, "isFinalCommand") THEN Put(a, "isFinalCommand", FALSE) ELSE a

\* the last command of a non-empty list is marked final
MarkLastFinal(cmds) ==
  IF Len(cmds) > 0
  THEN [cmds EXCEPT ![Len(cmds)] = Put(cmds[Len(cmds)], "isFinalCommand", TRUE)]
  ELSE cmds

\* copies the optional fields result / isTaskComplete of the parsed object
CopyOptional(resp, parsed) ==
  LET a == IF Has(parsed, "result") THEN Put(resp, "result", parsed["result"]) ELSE resp
  IN IF Has(parsed, "isTaskComplete")
     THEN Put(a, "isTaskComplete", parsed["isTaskComplete"]) ELSE a

\* a fallback that supplies no placeholder for a thinking section it did not find
FallbackBare(raw) ==
  LET r == [commands |-> IF raw.cmdSec # "" THEN <<[type |-> "text", text |-> raw.cmdSec]>>
                         ELSE <<>>]
  IN IF raw.thinkSec # "" THEN Put(r, "thinking", raw.thinkSec) ELSE r

\* the labelled free-text fallback
FallbackResponse(raw) ==
  [thinking |-> IF raw.thinkSec # "" THEN raw.thinkSec ELSE NoParseThinking,
   commands |-> IF raw.cmdSec # "" THEN <<[type |-> "text", text |-> raw.cmdSec]>>
                ELSE <<>>]

ErrorResponse(msg) ==
  [thinking |-> FailedThinking, commands |-> <<>>, error |-> msg]

\* the JSON branch, for a parsed object whose commands is absent or an array
JsonResponse(parsed) ==
  LET thinking == IF Has(parsed, "thinking") /\ parsed["thinking"] # ""
                  THEN parsed["thinking"] ELSE NoThinking
      rawCmds == IF Has(parsed, "commands") THEN parsed["commands"] ELSE <<>>
      repaired == [i \in 1..Len(rawCmds) |-> normalizeCommand(rawCmds[i])]
      flagged == [i \in 1..Len(repaired) |-> DefaultFlags(repaired[i], parsed)]
  IN CopyOptional([thinking |-> thinking, commands |-> MarkLastFinal(flagged)], parsed)

parseModelResponse(raw) ==
  IF ~raw.choices THEN ErrorResponse(InvalidApiMsg)
  ELSE IF raw.content = "null" THEN ErrorResponse(TypeErrorMsg)
  ELSE IF raw.jsonKind = "object" THEN JsonResponse(raw.json)
  ELSE FallbackResponse(raw)

(***************************************************************************)
(* The earlier revision of aiService: repair and defaults in one map       *)
(* callback, in which every repaired command is returned at once.          *)
(***************************************************************************)
MapCommandOld(cmd, parsed) ==
  IF Has(cmd, "action") /\ ~Has(cmd, "type")
  THEN LET n == Del(Put(cmd, "type", cmd["action"]), "action")
       IN IF n["type"] = "click" /\ Has(cmd, "coordinate") /\ Len(cmd["coordinate"]) = 2
          THEN Del(Put(Put(Put(n, "type", "tap"), "x", cmd["coordinate"][1]),
                       "y", cmd["coordinate"][2]), "coordinate")
          ELSE n
  ELSE IF Has(cmd, "type") /\ cmd["type"] = "swipe" /\
          ((Has(cmd, "coordinate") /\ Has(cmd, "coordinate2")) \/
           (Has(cmd, "coordinate") /\ Len(cmd["coordinate"]) = 4))
  THEN RepairSwipe(cmd)
  ELSE DefaultFlags(cmd, parsed)

JsonResponseOld(parsed) ==
  LET a == IF Has(parsed, "thinking") /\ parsed["thinking"] # ""
           THEN parsed ELSE Put(parsed, "thinking", NoThinking)
      rawCmds == IF Has(parsed, "commands") THEN parsed["commands"] ELSE <<>>
      mapped == [i \in 1..Len(rawCmds) |-> MapCommandOld(rawCmds[i], parsed)]
  IN Put(a, "commands", MarkLastFinal(mapped))

parseModelResponseOld(raw) ==
  IF ~raw.choices THEN ErrorResponse(InvalidApiMsg)
  ELSE IF raw.content = "null" THEN ErrorResponse(TypeErrorMsg)
  ELSE IF raw.jsonKind = "object" THEN JsonResponseOld(raw.json)
  ELSE Put(FallbackResponse(raw), "rawResponse", raw.content)

(***************************************************************************)
(* aiService: the bounded session history (updateSessionContext).          *)
(*                                                                         *)
(* SessionContext objects live in a heap so that two references to one     *)
(* object, or two objects sharing one history array, behave as in the      *)
(* program: ctxObjs[id] = [history |-> array id or 0, lastOperation], and  *)
(* histArrs[a] is the content of array a.                                  *)
(***************************************************************************)
MAX_CONTEXT_ITEMS == 5

ThinkingKeep == 150

LongThinking == "thinking-of-200-chars"

LongThinkingHead == "thinking-first-150-chars"

HugeThinking == "thinking-of-1200-chars"

HugeThinkingHead == "thinking-first-1000-chars"

StrLen(s) ==
  CASE s = HugeThinking -> 1200
    [] s = HugeThinkingHead -> 1000
    [] s = LongThinking -> 200
    [] s = LongThinkingHead -> 150
    [] OTHER -> 20

\* s.substring(0, n), for the cuts the program makes: at 150 characters of a
\* text of 200 and at 1000 characters of a text of 1200
Substring0(s, n) ==
  IF StrLen(s) <= n THEN s
  ELSE IF s = HugeThinking THEN HugeThinkingHead ELSE LongThinkingHead

NoOperation == EmptyObj

\* a slice that keeps the oldest n items instead of the newest
SliceFirst(arr, n) ==
  IF Len(arr) <= n THEN arr ELSE SubSeq(arr, 1, n)

\* arr.slice(-n)
SliceLast(arr, n) ==
  IF Len(arr) <= n THEN arr ELSE SubSeq(arr, Len(arr) - n + 1, Len(arr))

SimpleCommand(cmd) ==
  LET a == IF Has(cmd, "type") THEN [type |-> cmd["type"]] ELSE EmptyObj
  IN IF Has(cmd, "isTaskComplete")
     THEN Put(a, "isTaskComplete", cmd["isTaskComplete"]) ELSE a

SimplifiedResponse(resp) ==
  CopyOptional([thinking |-> Substring0(resp["thinking"], ThinkingKeep),
                commands |-> [i \in 1..Len(resp["commands"]) |->
                                SimpleCommand(resp["commands"][i])]],
               resp)

SimplifiedItem(newItem) ==
  [instruction |-> newItem.instruction,
   screenshot |-> newItem.screenshot,
   uiElements |-> newItem.uiElements,
   parsedResponse |-> SimplifiedResponse(newItem.parsedResponse)]

\* push, bound and stamp: the part both revisions of updateSessionContext share
PushBounded(objs, arrs, id, stored, ts) ==
  LET arrs1 == IF objs[id].history = 0 THEN Append(arrs, <<>>) ELSE arrs
      h1 == IF objs[id].history = 0 THEN Len(arrs1) ELSE objs[id].history
      arrs2 == [arrs1 EXCEPT ![h1] = Append(@, stored)]
      over == Len(arrs2[h1]) > MAX_CONTEXT_ITEMS
      arrs3 == IF over THEN Append(arrs2, SliceLast(arrs2[h1], MAX_CONTEXT_ITEMS))
               ELSE arrs2
      h3 == IF over THEN Len(arrs3) ELSE h1
  IN [objs |-> [objs EXCEPT ![id] =
                  Put(Put(@, "history", h3),
                      "lastOperation", [instruction |-> stored.instruction,
                                        timestamp |-> ts])],
      arrs |-> arrs3]

\* the heap after updateSessionContext(object id, newItem) at clock reading ts
updateSessionContext(objs, arrs, id, newItem, ts) ==
  PushBounded(objs, arrs, id, SimplifiedItem(newItem), ts)

\* the earlier revision stores newItem as it is
updateSessionContextOld(objs, arrs, id, newItem, ts) ==
  PushBounded(objs, arrs, id, newItem, ts)

\* the history of object id ("undefined" history reads as the empty list)
HistoryOf(objs, arrs, id) ==
  IF id = 0 \/ objs[id].history = 0 THEN <<>> ELSE arrs[objs[id].history]

HeapEmpty ==
  /\ ctxObjs = <<>>
  /\ histArrs = <<>>

(***************************************************************************)
(* commandExecutor: executeCommand.  The device calls are external; each   *)
(* may throw.  executeCommand(cmd) is the set of possible outcomes         *)
(* [ok, calls, err]: the transport calls made, in order, and whether the   *)
(* promise resolved.                                                       *)
(***************************************************************************)
Undefined == "undefined"

\* the value read from cmd.f: <<v>>, or <<>> when the field is undefined
Arg(cmd, f) == IF Has(cmd, f) THEN <<cmd[f]>> ELSE <<>>

IsUndefined(a) == Len(a) = 0

\* the value as it is passed on
Val(a) == IF IsUndefined(a) THEN Undefined ELSE a[1]

\* {..., f: a} in a CommandResult: an undefined value is no field
WithField(o, f, a) == IF IsUndefined(a) THEN o ELSE Put(o, f, a[1])

KEYCODE_BACK == 4

KEYCODE_HOME == 3

KEYCODE_APP_SWITCH == 187

DeviceError == "device-error"

InvalidCommandMsg == "invalid-command-format"   \* '无效的命令格式'

UnknownTypeMsg == "unknown-command-type"        \* '未知的命令类型: ...'

EmptyCompositeMsg == "composite-needs-commands" \* '复合命令必须是命令数组且不能为空'

Call(op, args) == [op |-> op, args |-> args]

\* no CommandResult: the promise was rejected
NoResult == EmptyObj

Outcome(ok, calls, err, result) ==
  [ok |-> ok, calls |-> calls, err |-> err, result |-> result]

\* one transport call: resolves with result, or throws after the call was made
TransportOutcomes(call, result) ==
  { Outcome(TRUE, <<call>>, "", result),
    Outcome(FALSE, <<call>>, DeviceError, NoResult) }

Succeeded == [success |-> TRUE]

\* a rejection that is swallowed
Passes(msg) == { Outcome(TRUE, <<>>, "", Succeeded) }

Fails(msg) == { Outcome(FALSE, <<>>, msg, NoResult) }

DEFAULT_SWIPE_DURATION == 300

\* a tap that passes its coordinates in the other order
tapSwapped(x, y) ==
  TransportOutcomes(Call("tap", <<Val(y), Val(x)>>),
                    WithField(WithField(Succeeded, "x", x), "y", y))

tap(x, y) ==
  TransportOutcomes(Call("tap", <<Val(x), Val(y)>>),
                    WithField(WithField(Succeeded, "x", x), "y", y))

swipe(startX, startY, endX, endY, duration) ==
  TransportOutcomes(
    Call("swipe", <<Val(startX), Val(startY), Val(endX), Val(endY), Val(duration)>>),
    Put(WithField(WithField(WithField(WithField(Succeeded,
          "startX", startX), "startY", startY), "endX", endX), "endY", endY),
        "duration", IF IsUndefined(duration) THEN DEFAULT_SWIPE_DURATION
                    ELSE duration[1]))

\* text.replace(...) throws a TypeError when text is undefined
inputText(text) ==
  IF IsUndefined(text)
  THEN { Outcome(FALSE, <<Call("inputText", <<Val(text)>>)>>, e, NoResult) :
           e \in {DeviceError, TypeErrorMsg} }
  ELSE TransportOutcomes(Call("inputText", <<Val(text)>>),
                         WithField(Succeeded, "text", text))

pressKey(keycode) ==
  TransportOutcomes(Call("pressKey", <<Val(keycode)>>),
                    WithField(Succeeded, "keycode", keycode))

DEFAULT_WAIT == 1000

\* wait(duration): a timer, no device call
wait(duration) ==
  { Outcome(TRUE, <<>>, "", [success |-> TRUE, duration |-> duration]) }

\* `a || dflt` for a number that may be undefined
NumOr(a, dflt) == IF IsUndefined(a) THEN dflt ELSE IF a[1] = 0 THEN dflt ELSE a[1]

RECURSIVE executeCommand(_)
RECURSIVE executeCompositeCommand(_)
RECURSIVE CompositeLoop(_, _)

executeCommand(cmd) ==
  IF ~Has(cmd, "type") THEN Fails(InvalidCommandMsg)
  ELSE CASE cmd["type"] = "tap" -> tap(Arg(cmd, "x"), Arg(cmd, "y"))
         [] cmd["type"] = "swipe" ->
              swipe(Arg(cmd, "startX"), Arg(cmd, "startY"), Arg(cmd, "endX"),
                    Arg(cmd, "endY"), Arg(cmd, "duration"))
         [] cmd["type"] = "text" -> inputText(Arg(cmd, "text"))
         [] cmd["type"] = "key" -> pressKey(Arg(cmd, "keycode"))
         [] cmd["type"] = "wait" -> wait(NumOr(Arg(cmd, "duration"), DEFAULT_WAIT))
         [] cmd["type"] = "back" -> pressKey(<<KEYCODE_BACK>>)
         [] cmd["type"] = "home" -> pressKey(<<KEYCODE_HOME>>)
         [] cmd["type"] = "app_switch" -> pressKey(<<KEYCODE_APP_SWITCH>>)
         [] cmd["type"] = "composite" ->
              IF Has(cmd, "commands") THEN executeCompositeCommand(cmd["commands"])
              ELSE Fails(EmptyCompositeMsg)
         [] OTHER -> Fails(UnknownTypeMsg)

\* the for-loop of executeCompositeCommand over the remaining commands, given
\* the outcome so far (calls made, results pushed): a throw ends it at once
CompositeLoop(cmds, sofar) ==
  IF cmds = <<>>
  THEN { Outcome(TRUE, sofar.calls, "",
                 [success |-> TRUE, type |-> "composite", results |-> sofar.results]) }
  ELSE UNION {
         IF o.ok
         THEN CompositeLoop(Tail(cmds),
                [calls |-> sofar.calls \o o.calls,
                 results |-> Append(sofar.results, o.result)])
         ELSE { Outcome(FALSE, sofar.calls \o o.calls, o.err, NoResult) }
         : o \in executeCommand(Head(cmds)) }

\* the inner commands taken last to first
executeCompositeCommandReversed(cmds) ==
  IF Len(cmds) = 0 THEN Fails(EmptyCompositeMsg)
  ELSE CompositeLoop([i \in 1..Len(cmds) |-> cmds[Len(cmds) + 1 - i]],
                     [calls |-> <<>>, results |-> <<>>])

\* a composite that starts its loop without looking at the list
executeCompositeCommandUnchecked(cmds) ==
  CompositeLoop(cmds, [calls |-> <<>>, results |-> <<>>])

executeCompositeCommand(cmds) ==
  IF Len(cmds) = 0 THEN Fails(EmptyCompositeMsg)
  ELSE CompositeLoop(cmds, [calls |-> <<>>, results |-> <<>>])

(***************************************************************************)
(* The orchestration loop of the socket server.                            *)
(*                                                                         *)
(* Each send-instruction event starts an async handler.  A handler is      *)
(* suspended at exactly one await; stack[t] is its chain of suspended      *)
(* calls, innermost first.  An action is the completion of the awaited     *)
(* device / LLM call followed by all the synchronous code up to the next   *)
(* await (the 1000 ms settle delay after a successful command has no       *)
(* effect on the loop state and is part of the step).                      *)
(***************************************************************************)
Tasks == 1..(IF MaxInstr > ConcInstr THEN MaxInstr ELSE ConcInstr)

\* Date.now() / new Date() read at step n of instruction t: an opaque reading
\* a clock that has stopped
ClockStopped(t, n) == [task |-> t, step |-> 0]

Clock(t, n) == [task |-> t, step |-> n]

InstructionText(t) ==
  CASE t = 1 -> "open settings" [] t = 2 -> "check weather" [] OTHER -> "send message"

AutoCorrectText == "auto-correction"   \* '自动纠错'

NoCmd == EmptyObj

\* the logPrefix argument: '' and its '继续处理...' extensions in the main loop,
\* '纠错:' for the commands of a correction round
MainPrefix == "main"

CorrectionPrefix == "correction"

\* ts is the clock reading of the frame's capture, Clock(0, 0) before it
Frame(fn, pc, instr, cmd, err, cmds, i, ctx, ts) ==
  [fn |-> fn, pc |-> pc, instr |-> instr, cmd |-> cmd, err |-> err,
   cmds |-> cmds, i |-> i, ctx |-> ctx, ts |-> Clock(0, ts)]

\* an entry of the trace: an I/O call of the loop or an event emitted on the socket
Ev(ev, cmd, ok, arg) == [ev |-> ev, cmd |-> cmd, ok |-> ok, arg |-> arg]

\* a machine is the pair of one handler's stack and the trace it has produced
Machine(st, tr) == [st |-> st, tr |-> tr]

\* getCurrentScreenState() is called by the frame f, which then awaits it
StartCapture(m, f, kind) ==
  Machine(<<[f EXCEPT !.pc = "capture"]>> \o m.st,
          Append(m.tr, Ev("capture", NoCmd, TRUE, kind)))

\* a dispatch that is not announced to the page
StartSingleSilent(m, cmd, logPrefix) ==
  Machine(<<Frame("single", "exec", logPrefix, cmd, "", <<>>, 0, 0, 0)>> \o m.st,
          Append(m.tr, Ev("dispatch", cmd, TRUE, logPrefix)))

\* executeAndHandleSingleCommand(socket, cmd, logPrefix) up to its await of
\* executeCommand; the frame keeps logPrefix in instr
StartSingle(m, cmd, logPrefix) ==
  Machine(<<Frame("single", "exec", logPrefix, cmd, "", <<>>, 0, 0, 0)>> \o m.st,
          m.tr \o <<Ev("command-start", cmd, TRUE, logPrefix),
                    Ev("dispatch", cmd, TRUE, logPrefix)>>)

\* a completion test that takes every command for the last one of the task
IsCompleteAlways(cmd) == TRUE

\* an inverted completion test
IsCompleteInverted(cmd) == Has(cmd, "isTaskComplete") /\ ~cmd["isTaskComplete"]

\* `command.isTaskComplete` read as a condition
IsComplete(cmd) == Has(cmd, "isTaskComplete") /\ cmd["isTaskComplete"]

\* a loop over the corrective commands that stops after the first one
StopsAfterFirst(f) == FALSE

\* the for-of loop of handleErrorCorrection has another corrective command
HasNextCorrective(f) == f.i < Len(f.cmds)

\* the callee of the top frame has returned (ok: the commandResult's success)
RECURSIVE Return(_, _)

Return(m, ok) ==
  IF m.st = <<>> THEN m
  ELSE LET f == Head(m.st)
           rest == Tail(m.st)
       IN CASE f.fn = "seq" /\ f.pc = "single" ->
                 \* executeCommandSequence, after executeAndHandleSingleCommand
                 IF ok /\ ~IsComplete(f.cmds[f.i])
                 THEN StartCapture(
                        Machine(<<[f EXCEPT !.pc = "cont"]>> \o rest, m.tr),
                        Frame("cont", "capture", f.instr, f.cmds[f.i], "", <<>>, 0, 0, 0),
                        "continue")
                 ELSE Return(Machine(rest, m.tr), TRUE)   \* break
            [] f.fn = "seq" /\ f.pc = "cont" ->
                 \* continueTaskExecution returned: no break, next command
                 IF f.i < Len(f.cmds)
                 THEN StartSingle(
                        Machine(<<[f EXCEPT !.i = f.i + 1, !.pc = "single"]>> \o rest, m.tr),
                        f.cmds[f.i + 1], MainPrefix)
                 ELSE Return(Machine(rest, m.tr), TRUE)
            [] f.fn = "cont" ->
                 \* executeCommandSequence returned into continueTaskExecution
                 Return(Machine(rest, m.tr), TRUE)
            [] f.fn = "single" ->
                 \* handleErrorCorrection returned: the failed commandResult
                 Return(Machine(rest, m.tr), FALSE)
            [] f.fn = "corr" ->
                 \* a corrective command was handled: next one, or the end
                 IF HasNextCorrective(f)
                 THEN StartSingle(
                        Machine(<<[f EXCEPT !.i = f.i + 1]>> \o rest, m.tr),
                        f.cmds[f.i + 1], CorrectionPrefix)
                 ELSE Return(Machine(rest,
                        Append(m.tr, Ev("error-correction-end", NoCmd, TRUE,
                                        f["correction"]))), TRUE)
            [] OTHER ->
                 \* the send-instruction handler ends
                 Machine(rest, m.tr)

\* an exception of the correction round that reaches the catch of the handler
RECURSIVE ThrowThrough(_, _)

ThrowThrough(m, msg) ==
  IF m.st = <<>> THEN m
  ELSE IF Head(m.st).fn = "handler"
  THEN Machine(Tail(m.st), Append(m.tr,
         Ev("error", NoCmd, FALSE, [scope |-> "instruction", message |-> msg])))
  ELSE ThrowThrough(Machine(Tail(m.st), m.tr), msg)

\* the await of the top frame has thrown
RECURSIVE Throw(_, _)

Throw(m, msg) ==
  IF m.st = <<>> THEN m
  ELSE LET f == Head(m.st)
           rest == Tail(m.st)
       IN CASE f.fn = "handler" ->
                 \* catch of the send-instruction handler
                 Machine(rest, Append(m.tr,
                   Ev("error", NoCmd, FALSE, [scope |-> "instruction", message |-> msg])))
            [] f.fn = "corr" ->
                 \* catch of handleErrorCorrection, which then returns normally
                 Return(Machine(rest, Append(m.tr,
                   Ev("error", NoCmd, FALSE, [scope |-> "correction", message |-> msg]))),
                   TRUE)
            [] OTHER -> Throw(Machine(rest, m.tr), msg)

(***************************************************************************)
(* The page (client): its processing flag follows the events it receives.  *)
(***************************************************************************)
ClientOn(flag, e) ==
  CASE e.ev = "handle-instruction-start" -> TRUE
    [] e.ev = "instruction-response" ->
         IF BoolOr(e.arg, "isTaskComplete", FALSE) \/ Len(e.arg["commands"]) = 0
         THEN FALSE ELSE flag
    [] e.ev = "task-result" -> FALSE
    [] e.ev = "error" -> FALSE
    [] OTHER -> flag

RECURSIVE ClientAfter(_, _)

ClientAfter(flag, evs) ==
  IF evs = <<>> THEN flag ELSE ClientAfter(ClientOn(flag, Head(evs)), Tail(evs))

(***************************************************************************)
(* The answers of the model in the loop: API responses, normalized by      *)
(* parseModelResponse before the loop sees them.                           *)
(***************************************************************************)
LoopCmds ==
  { [type |-> "tap", x |-> 100, y |-> 200, isTaskComplete |-> FALSE],
    [type |-> "tap", x |-> 100, y |-> 200, isTaskComplete |-> TRUE] }

JsonAnswer(obj) ==
  [choices |-> TRUE, content |-> "str", jsonKind |-> "object", json |-> obj,
   cmdSec |-> "", thinkSec |-> ""]

LoopRaws ==
  { JsonAnswer([thinking |-> "thinking", commands |-> cmds]) :
      cmds \in SeqsUpTo(LoopCmds, MaxBatch) }
  \cup
  { JsonAnswer([thinking |-> LongThinking, commands |-> <<>>,
                result |-> "result", isTaskComplete |-> TRUE]),
    [choices |-> TRUE, content |-> "str", jsonKind |-> "nomatch", json |-> EmptyObj,
     cmdSec |-> "section", thinkSec |-> ""] }

CaptureErrorMsg == "capture-error"

GatewayErrorMsg == "gateway-error"

LoopIdle ==
  /\ stack = [t \in Tasks |-> <<>>]
  /\ tstate = [t \in Tasks |-> "idle"]
  /\ trace = [t \in Tasks |-> <<>>]
  /\ sockCtx = 0
  /\ rounds = 0
  /\ isProcessing = FALSE
  /\ lastRoundTrip = EmptyObj

PureIdle ==
  /\ pIn = EmptyObj
  /\ pOut = EmptyObj
  /\ pPhase = "off"

RouteIdle ==
  /\ sessions = EmptyObj
  /\ reqs = <<>>
  /\ reply = EmptyObj
  /\ now = 0

OtherIdleNoPure ==
  /\ HeapEmpty
  /\ RouteIdle
  /\ nRaw = EmptyObj
  /\ nOut = EmptyObj
  /\ nOutOld = EmptyObj
  /\ nPhase = "off"
  /\ sAll = <<>>

OtherIdle ==
  /\ OtherIdleNoPure
  /\ PureIdle

Init ==
  /\ LoopIdle
  /\ limits = [instr |-> MaxInstr, rounds |-> MaxRounds, raws |-> LoopRaws]
  /\ OtherIdle

ConcInit ==
  /\ LoopIdle
  /\ limits = [instr |-> ConcInstr, rounds |-> ConcRounds, raws |-> LoopRaws]
  /\ OtherIdle

Top(t) == Head(stack[t])

Awaiting(t, pc) == tstate[t] = "running" /\ Top(t).pc = pc

\* the socket of instruction t is still connected: what is emitted reaches
\* the page
Connected(t) == \A j \in DOMAIN trace[t] : trace[t][j].ev # "disconnect"

\* the step of instruction t ends in machine m
Continue(t, m) ==
  /\ stack' = [stack EXCEPT ![t] = m.st]
  /\ trace' = [trace EXCEPT ![t] = m.tr]
  /\ tstate' = [tstate EXCEPT ![t] = IF m.st = <<>> THEN "done" ELSE "running"]
  /\ isProcessing' = IF Connected(t)
                     THEN ClientAfter(isProcessing,
                                      SubSeq(m.tr, Len(trace[t]) + 1, Len(m.tr)))
                     ELSE isProcessing
  /\ UNCHANGED limits

\* the page sends send-instruction; the handler runs up to its first await
SubmitInstruction(t) ==
  /\ tstate[t] = "idle"
  /\ t <= limits.instr
  /\ \A u \in Tasks : u < t => tstate[u] # "idle"
  /\ ~isProcessing
  /\ LET m == StartCapture(Machine(<<>>, <<>>),
                Frame("handler", "capture", InstructionText(t), NoCmd, "", <<>>, 0, 0, 0),
                "initial")
     IN /\ stack' = [stack EXCEPT ![t] = m.st]
        /\ trace' = [trace EXCEPT ![t] = m.tr]
  /\ tstate' = [tstate EXCEPT ![t] = "running"]
  /\ isProcessing' = TRUE
  /\ UNCHANGED <<limits, sockCtx, rounds, lastRoundTrip, ctxObjs, histArrs, normVars, sAll, pureVars, routeVars>>

\* getCurrentScreenState resolved: handleAIInstruction is called and awaits the LLM
CaptureOk(t) ==
  /\ Awaiting(t, "capture")
  /\ LET f == Top(t)
         fresh == sockCtx = 0      \* socket.sessionContext || {}
         ctx == IF fresh THEN Len(ctxObjs) + 1 ELSE sockCtx
         mode == CASE f.fn = "corr" -> "correct"
                   [] f.fn = "cont" -> "continue"
                   [] OTHER -> "instruct"
         emitted == CASE f.fn = "handler" ->
                           <<Ev("handle-instruction-start", NoCmd, TRUE, "")>>
                      [] f.fn = "corr" ->
                           <<Ev("error-correction-start", NoCmd, TRUE, "")>>
                      [] OTHER -> <<>>
         call == Ev("model", f.cmd, TRUE,
                    [mode |-> mode, message |-> f.err,
                     snapshot |-> Clock(t, Len(trace[t]))])
     IN /\ ctxObjs' = IF fresh
                      THEN Append(ctxObjs, [history |-> 0, lastOperation |-> NoOperation])
                      ELSE ctxObjs
        /\ Continue(t, Machine(<<[f EXCEPT !.pc = "ai", !.ctx = ctx,
                                             !.ts = Clock(t, Len(trace[t]))]>>
                                 \o Tail(stack[t]),
                               trace[t] \o emitted \o <<call>>))
  /\ UNCHANGED <<sockCtx, rounds, lastRoundTrip, histArrs, normVars, sAll, pureVars, routeVars>>

\* getScreenshot or extractUIElements threw
CaptureFail(t) ==
  /\ Awaiting(t, "capture")
  /\ Continue(t, Throw(Machine(stack[t],
                               Append(trace[t], Ev("capture-failed", NoCmd, FALSE, ""))),
                       CaptureErrorMsg))
  /\ UNCHANGED <<sockCtx, rounds, lastRoundTrip, ctxObjs, histArrs, normVars, sAll, pureVars, routeVars>>

\* callLLMAPI threw (configuration, non-2xx, no response)
ModelFail(t) ==
  /\ Awaiting(t, "ai")
  /\ Continue(t, Throw(Machine(stack[t],
                               Append(trace[t], Ev("model-failed", NoCmd, FALSE, ""))),
                       GatewayErrorMsg))
  /\ UNCHANGED <<sockCtx, rounds, lastRoundTrip, ctxObjs, histArrs, normVars, sAll, pureVars, routeVars>>

\* the code after `await handleAIInstruction(...)` in the three callers
AfterResponse(f, rest, tr, resp) ==
  LET cmds == resp["commands"]
      some == Len(cmds) > 0
      shown == Ev("instruction-response", NoCmd, TRUE, resp)
  IN CASE f.fn = "handler" ->
            IF some
            THEN StartSingle(
                   Machine(<<Frame("seq", "single", f.instr, NoCmd, "", cmds, 1, 0, 0),
                             [f EXCEPT !.pc = "seq"]>> \o rest,
                           Append(tr, shown)),
                   cmds[1], MainPrefix)
            ELSE Machine(rest, Append(tr, shown))
       [] f.fn = "cont" ->
            LET tr1 == IF Has(resp, "result")
                       THEN Append(tr, Ev("task-result", NoCmd, TRUE, resp["result"]))
                       ELSE tr
            IN IF some
               THEN StartSingle(
                      Machine(<<Frame("seq", "single", f.instr, NoCmd, "", cmds, 1, 0, 0),
                                [f EXCEPT !.pc = "seq"]>> \o rest,
                              Append(tr1, shown)),
                      cmds[1], MainPrefix)
               ELSE Return(Machine(rest, tr1), TRUE)
       [] OTHER ->
            \* handleErrorCorrection
            IF some
            THEN StartSingle(
                   Machine(<<Put([f EXCEPT !.pc = "loop", !.cmds = cmds, !.i = 1],
                                 "correction", resp)>> \o rest, tr),
                   cmds[1], CorrectionPrefix)
            ELSE Return(Machine(rest,
                   Append(tr, Ev("error-correction-end", NoCmd, TRUE, resp))), TRUE)

(***************************************************************************)
(* The captures and what handleAIInstruction keeps of them.                *)
(***************************************************************************)
ImageData == "base64-image"

ElementTree == "element-tree"

NaN == "NaN"

\* what getScreenshot resolves with at clock reading ts
ScreenshotResult(ts) ==
  [base64 |-> ImageData, path |-> "screen.png", timestamp |-> ts]

\* new Date().toISOString() at clock reading ts
IsoString(ts) == [iso |-> ts]

\* what extractUIElements resolves with at clock reading ts
UIExtractResult(ts) ==
  [rootNode |-> "hierarchy", elements |-> ElementTree, timestamp |-> IsoString(ts)]

\* Number(s) for an ISO date string: such a string is no numeric literal
NumberOfIso(s) == NaN

\* getCurrentScreenState: the timestamp of extractUIElements is a string and
\* is converted with Number
getCurrentScreenState(ts) ==
  [screenshot |-> ScreenshotResult(ts),
   uiElements |-> Put(UIExtractResult(ts), "timestamp",
                      NumberOfIso(UIExtractResult(ts).timestamp))]

\* a history entry that keeps the capture itself
WholeCapture(capture) == capture

\* `{ timestamp: capture.timestamp }`: what a history item keeps of a capture
Reference(capture) == [timestamp |-> capture.timestamp]

\* the handler's `socket.sessionContext = {...}` after the first round-trip
AssignSocketContext(objs, arrs, instr, ts) ==
  LET keep == sockCtx # 0 /\ objs[sockCtx].history # 0
      arrs1 == IF keep THEN arrs ELSE Append(arrs, <<>>)
      obj == [history |-> IF keep THEN objs[sockCtx].history ELSE Len(arrs1),
              lastOperation |-> [instruction |-> instr, timestamp |-> ts]]
  IN [objs |-> Append(objs, obj), arrs |-> arrs1]

\* callLLMAPI resolved: the rest of handleAIInstruction, then its caller
ModelOk(t) ==
  /\ Awaiting(t, "ai")
  /\ rounds < limits.rounds
  /\ \E raw \in limits.raws :
       LET f == Top(t)
           resp == parseModelResponse(raw)
           screen == getCurrentScreenState(f.ts)
           item == [instruction |-> IF f.fn = "corr" THEN AutoCorrectText ELSE f.instr,
                    screenshot |-> Reference(screen.screenshot),
                    uiElements |-> Reference(screen.uiElements),
                    parsedResponse |-> resp]
           ts == Clock(t, Len(trace[t]))
           h == updateSessionContext(ctxObjs, histArrs, f.ctx, item, ts)
           h2 == IF f.fn = "handler"
                 THEN AssignSocketContext(h.objs, h.arrs, f.instr, ts) ELSE h
       IN /\ ctxObjs' = h2.objs
          /\ histArrs' = h2.arrs
          /\ sockCtx' = IF f.fn = "handler" THEN Len(h2.objs) ELSE sockCtx
          /\ lastRoundTrip' = SimplifiedItem(item)
          /\ Continue(t, AfterResponse(f, Tail(stack[t]), trace[t], resp))
  /\ rounds' = rounds + 1
  /\ UNCHANGED <<normVars, sAll, pureVars, routeVars>>

TransportEvents(calls) ==
  [i \in 1..Len(calls) |-> Ev("transport", NoCmd, TRUE, calls[i])]

\* executeCommand settled: the rest of executeAndHandleSingleCommand
DispatchDone(t) ==
  /\ Awaiting(t, "exec")
  /\ \E o \in executeCommand(Top(t).cmd) :
       LET f == Top(t)
           tr1 == trace[t] \o TransportEvents(o.calls)
                    \o <<Ev("command-result", f.cmd, o.ok,
                            [by |-> f.instr, error |-> o.err])>>
       IN IF o.ok
          THEN Continue(t, Return(Machine(Tail(stack[t]), tr1), TRUE))
          ELSE Continue(t, StartCapture(
                 Machine(<<[f EXCEPT !.pc = "corr", !.err = o.err]>> \o Tail(stack[t]), tr1),
                 Frame("corr", "capture", "", f.cmd, o.err, <<>>, 0, 0, 0),
                 "correct"))
  /\ UNCHANGED <<sockCtx, rounds, lastRoundTrip, ctxObjs, histArrs, normVars, sAll, pureVars, routeVars>>

Next ==
  \E t \in Tasks :
    \/ SubmitInstruction(t)
    \/ CaptureOk(t)
    \/ CaptureFail(t)
    \/ ModelOk(t)
    \/ ModelFail(t)
    \/ DispatchDone(t)

Spec == Init /\ [][Next]_vars

\* the same loop when the page may send a second instruction
SpecConc == ConcInit /\ [][Next]_vars

\* the same loop when the model answers with composite commands and with
\* commands that executeCommand rejects
TapA == [type |-> "tap", x |-> 100, y |-> 200]

TapB == [type |-> "tap", x |-> 300, y |-> 400]

UnknownCmd == [type |-> "fly"]

UntypedCmd == [x |-> 100, y |-> 200]

FaultCmds ==
  { [type |-> "composite", commands |-> <<TapA, TapB>>, isTaskComplete |-> TRUE],
    [type |-> "composite", commands |-> <<TapA, UnknownCmd, TapB>>,
     isTaskComplete |-> TRUE],
    UnknownCmd, UntypedCmd,
    [type |-> "tap", x |-> 100, y |-> 200, isTaskComplete |-> TRUE] }

FaultRaws ==
  { JsonAnswer([thinking |-> "thinking", commands |-> <<c>>]) : c \in FaultCmds }
  \cup { JsonAnswer([thinking |-> "thinking", commands |-> <<>>]) }

FaultInit ==
  /\ LoopIdle
  /\ limits = [instr |-> 1, rounds |-> FaultRounds, raws |-> FaultRaws]
  /\ OtherIdle

SpecFault == FaultInit /\ [][Next]_vars

\* the same loop when the model answers with one command, with no command or
\* with a list of CorrBatch commands that are all marked complete or all not
CorrRaws ==
  { JsonAnswer([thinking |-> "thinking", commands |-> cmds]) :
      cmds \in {<<>>} \cup { <<c>> : c \in LoopCmds }
                \cup { [i \in 1..CorrBatch |-> c] : c \in LoopCmds } }

CorrInit ==
  /\ LoopIdle
  /\ limits = [instr |-> 1, rounds |-> CorrRounds, raws |-> CorrRaws]
  /\ OtherIdle

SpecCorr == CorrInit /\ [][Next]_vars

\* every await of the loop settles: the device and the model calls return
LiveRaws ==
  { JsonAnswer([thinking |-> "thinking", commands |-> cmds]) :
      cmds \in {<<>>} \cup { <<c>> : c \in LoopCmds } }

LiveInit ==
  /\ LoopIdle
  /\ limits = [instr |-> 1, rounds |-> LiveRounds, raws |-> LiveRaws]
  /\ OtherIdle

SpecCorrLive == LiveInit /\ [][Next]_vars /\ WF_vars(Next)

\* a disconnect that cancels the handler of the instruction
DisconnectCancels(t) ==
  /\ tstate[t] = "running"
  /\ Connected(t)
  /\ trace' = [trace EXCEPT ![t] = Append(@, Ev("disconnect", NoCmd, TRUE, ""))]
  /\ stack' = [stack EXCEPT ![t] = <<>>]
  /\ tstate' = [tstate EXCEPT ![t] = "done"]
  /\ UNCHANGED <<sockCtx, limits, rounds, isProcessing, lastRoundTrip,
                 ctxObjs, histArrs, normVars, sAll, pureVars, routeVars>>

\* the page of instruction t goes away while the handler is suspended: the
\* disconnect handler of the server writes a log line; the trace notes where
\* in the run it happened
Disconnect(t) ==
  /\ tstate[t] = "running"
  /\ Connected(t)
  /\ trace' = [trace EXCEPT ![t] = Append(@, Ev("disconnect", NoCmd, TRUE, ""))]
  /\ UNCHANGED <<stack, tstate, sockCtx, limits, rounds, isProcessing, lastRoundTrip,
                 ctxObjs, histArrs, normVars, sAll, pureVars, routeVars>>

DiscInit ==
  /\ LoopIdle
  /\ limits = [instr |-> 1, rounds |-> DiscRounds, raws |-> CorrRaws]
  /\ OtherIdle

DiscNext ==
  \/ Next
  \/ \E t \in Tasks : Disconnect(t)

SpecDisc == DiscInit /\ [][DiscNext]_vars

\* the same loop when the model gateway may also hand back an API response
\* without choices or a text without JSON and without labelled sections
InvalidApiAnswer ==
  [choices |-> FALSE, content |-> "null", jsonKind |-> "nomatch", json |-> EmptyObj,
   cmdSec |-> "", thinkSec |-> ""]

PlainTextAnswer ==
  [choices |-> TRUE, content |-> "str", jsonKind |-> "nomatch", json |-> EmptyObj,
   cmdSec |-> "", thinkSec |-> ""]

SurfaceCmds ==
  { [type |-> "tap", x |-> 100, y |-> 200, isTaskComplete |-> FALSE],
    [type |-> "tap", x |-> 100, y |-> 200, isTaskComplete |-> TRUE],
    UnknownCmd }

SurfaceRaws ==
  { JsonAnswer([thinking |-> "thinking", commands |-> <<c>>]) : c \in SurfaceCmds }
  \cup { InvalidApiAnswer, PlainTextAnswer }

SurfaceInit ==
  /\ LoopIdle
  /\ limits = [instr |-> 1, rounds |-> SurfaceRounds, raws |-> SurfaceRaws]
  /\ OtherIdle

SpecSurface == SurfaceInit /\ [][Next]_vars

(***************************************************************************)
(* Inputs of the normalizer specification.                                 *)
(***************************************************************************)
RawCmdBases ==
  { [type |-> "tap", x |-> 100, y |-> 200],
    [action |-> "click", coordinate |-> <<160, 200>>],
    [type |-> "swipe", coordinate |-> <<10, 20>>, coordinate2 |-> <<10, 200>>] }

OptBool == {"absent", "true", "false"}

WithOptBool(o, f, b) ==
  IF b = "absent" THEN o ELSE Put(o, f, b = "true")

RawCmds ==
  { WithOptBool(WithOptBool(c, "isTaskComplete", tc), "isFinalCommand", fc) :
      c \in RawCmdBases, tc \in OptBool, fc \in OptBool }

WithOptStr(o, f, s) == IF s = "" THEN o ELSE Put(o, f, s)

RawJsonBodies ==
  {EmptyObj} \cup { [commands |-> cmds] : cmds \in SeqsUpTo(RawCmds, NormMaxCmds) }

RawJsonObjects ==
  { WithOptBool(WithOptStr(WithOptStr(body, "thinking", th), "result", res),
                "isTaskComplete", tc) :
      body \in RawJsonBodies,
      th \in {"", "thinking"}, res \in {"", "result"}, tc \in OptBool }

Sections == {"", "section"}

RawResponses ==
  { [choices |-> TRUE, content |-> "str", jsonKind |-> "object", json |-> j,
     cmdSec |-> "", thinkSec |-> ""] :
      j \in RawJsonObjects \cup { [thinking |-> "", commands |-> <<>>] } }
  \cup
  { [choices |-> ch, content |-> co, jsonKind |-> k, json |-> EmptyObj,
     cmdSec |-> cs, thinkSec |-> ts] :
      ch \in BOOLEAN, co \in {"null", "str"},
      k \in {"nomatch", "syntaxerror", "badcommands"},
      cs \in Sections, ts \in Sections }

(***************************************************************************)
(* Specification of the normalizer: one API response, parsed once by each  *)
(* revision.                                                               *)
(***************************************************************************)
NormInit ==
  /\ nRaw \in RawResponses
  /\ nOut = EmptyObj
  /\ nOutOld = EmptyObj
  /\ nPhase = "raw"
  /\ LoopIdle
  /\ limits = [instr |-> 0, rounds |-> 0]
  /\ HeapEmpty
  /\ sAll = <<>>
  /\ PureIdle
  /\ RouteIdle

Normalize ==
  /\ nPhase = "raw"
  /\ nOut' = parseModelResponse(nRaw)
  /\ nOutOld' = parseModelResponseOld(nRaw)
  /\ nPhase' = "parsed"
  /\ UNCHANGED <<nRaw, loopVars, heapVars, sAll, pureVars, routeVars>>

NormNext == Normalize

SpecNorm == NormInit /\ [][NormNext]_vars

(***************************************************************************)
(* Specification of the session history: appends to one SessionContext.    *)
(* Object 1 is updated by the current revision, object 2 by the earlier    *)
(* one; both start as `{}` or with an empty history.                       *)
(***************************************************************************)
SessResponses ==
  { parseModelResponse(JsonAnswer([thinking |-> LongThinking,
                                   commands |-> <<[type |-> "tap", x |-> 100, y |-> 200]>>])),
    parseModelResponse(JsonAnswer([commands |-> <<>>, result |-> "result",
                                   isTaskComplete |-> TRUE])) }

SessInstructions == {InstructionText(1), AutoCorrectText}

SessInit ==
  /\ \E h \in {0, 1} :
       /\ ctxObjs = <<[history |-> h, lastOperation |-> NoOperation],
                      [history |-> 2 * h, lastOperation |-> NoOperation]>>
       /\ histArrs = IF h = 0 THEN <<>> ELSE << <<>>, <<>> >>
  /\ sAll = <<>>
  /\ LoopIdle
  /\ limits = [instr |-> 0, rounds |-> 0]
  /\ nRaw = EmptyObj
  /\ nOut = EmptyObj
  /\ nOutOld = EmptyObj
  /\ nPhase = "off"
  /\ PureIdle
  /\ RouteIdle

SessAppend ==
  /\ Len(sAll) < MaxAppends
  /\ \E instr \in SessInstructions, resp \in SessResponses :
       LET ts == Len(sAll) + 1
           item == [instruction |-> instr,
                    screenshot |-> [timestamp |-> ts],
                    uiElements |-> [timestamp |-> ts],
                    parsedResponse |-> resp]
           h1 == updateSessionContext(ctxObjs, histArrs, 1, item, ts)
           h2 == updateSessionContextOld(h1.objs, h1.arrs, 2, item, ts)
       IN /\ ctxObjs' = h2.objs
          /\ histArrs' = h2.arrs
          /\ sAll' = Append(sAll, item)
  /\ UNCHANGED <<loopVars, normVars, pureVars, routeVars>>

SessNext == SessAppend

SpecSess == SessInit /\ [][SessNext]_vars

(***************************************************************************)
(* Specification of command repair: responses whose commands use the       *)
(* canonical schema or one of the alias forms, parsed by each revision.    *)
(***************************************************************************)
CanonicalCmds ==
  { [type |-> "tap", x |-> 100, y |-> 200],
    [type |-> "swipe", startX |-> 10, startY |-> 20, endX |-> 10, endY |-> 200],
    [type |-> "text", text |-> "hello"] }

AliasCmds ==
  { [action |-> "click", coordinate |-> <<160, 200>>],
    [type |-> "click", coordinate |-> <<160, 200>>],
    [type |-> "tap", coordinate |-> <<160, 200>>],
    [type |-> "swipe", coordinate |-> <<10, 20>>, coordinate2 |-> <<10, 200>>],
    [type |-> "swipe", coordinate |-> <<10, 20, 10, 200>>],
    [action |-> "swipe", coordinate |-> <<10, 20>>, coordinate2 |-> <<10, 200>>],
    [action |-> "back"] }

RepairResponses ==
  { JsonAnswer([thinking |-> "thinking", commands |-> cs]) :
      cs \in SeqsUpTo(CanonicalCmds \cup AliasCmds, RepairMaxCmds) \ {<<>>} }

RepairInit ==
  /\ nRaw \in RepairResponses
  /\ nOut = EmptyObj
  /\ nOutOld = EmptyObj
  /\ nPhase = "raw"
  /\ LoopIdle
  /\ limits = [instr |-> 0, rounds |-> 0]
  /\ HeapEmpty
  /\ sAll = <<>>
  /\ PureIdle
  /\ RouteIdle

SpecRepair == RepairInit /\ [][NormNext]_vars

(***************************************************************************)
(* commandExecutor called on its own: executeCommand on one command.       *)
(***************************************************************************)
\* every subset of the optional fields of a command
WithSomeOf(base, fields) ==
  { [f \in (DOMAIN base) \cup S |-> IF f \in S THEN fields[f] ELSE base[f]] :
      S \in SUBSET (DOMAIN fields) }

SimpleCmds ==
  WithSomeOf([type |-> "tap"], [x |-> 100, y |-> 200])
  \cup WithSomeOf([type |-> "swipe", startX |-> 10, startY |-> 20],
                  [endX |-> 10, endY |-> 200, duration |-> 500])
  \cup WithSomeOf([type |-> "swipe", endX |-> 10, endY |-> 200],
                  [startX |-> 10, startY |-> 20])
  \cup WithSomeOf([type |-> "text"], [text |-> "hello"])
  \cup WithSomeOf([type |-> "key"], [keycode |-> 66])
  \cup { [type |-> "wait"], [type |-> "wait", duration |-> 0],
         [type |-> "wait", duration |-> 500] }
  \cup { [type |-> t] : t \in {"back", "home", "app_switch"} }
  \cup { [type |-> "fly"], [x |-> 100, y |-> 200] }

InnerCmds ==
  { [type |-> "tap", x |-> 100, y |-> 200], [type |-> "wait"], [type |-> "back"],
    [type |-> "fly"],
    [type |-> "composite", commands |-> <<[type |-> "text", text |-> "hello"]>>] }

CompositeCmds ==
  { [type |-> "composite"] }
  \cup { [type |-> "composite", commands |-> cs] : cs \in SeqsUpTo(InnerCmds, ExecMaxInner) }

ExecCmds == SimpleCmds \cup CompositeCmds

ExecInit ==
  /\ pIn \in ExecCmds
  /\ pOut = EmptyObj
  /\ pPhase = "called"
  /\ LoopIdle
  /\ limits = [instr |-> 0, rounds |-> 0]
  /\ OtherIdleNoPure

\* executeCommand(pIn) settles
Execute ==
  /\ pPhase = "called"
  /\ pOut' \in executeCommand(pIn)
  /\ pPhase' = "returned"
  /\ UNCHANGED <<pIn, loopVars, heapVars, normVars, sAll, routeVars>>

ExecNext == Execute

SpecExec == ExecInit /\ [][ExecNext]_vars

(***************************************************************************)
(* uiExtractor: parseBounds.  A string is the sequence of its characters.  *)
(***************************************************************************)
DigitChars == <<"0", "1", "2", "3", "4", "5", "6", "7", "8", "9">>

IsDigit(ch) == \E d \in DOMAIN DigitChars : DigitChars[d] = ch

DigitVal(ch) == (CHOOSE d \in DOMAIN DigitChars : DigitChars[d] = ch) - 1

RECURSIVE NumberOf(_)
\* Number(str) for a string of decimal digits
NumberOf(str) ==
  IF str = <<>> THEN 0
  ELSE NumberOf(SubSeq(str, 1, Len(str) - 1)) * 10 + DigitVal(str[Len(str)])

\* the index of the last character of the run \d+ that starts at i, i - 1 if
\* there is no digit at i
RunEnd(str, i) ==
  LET S == {j \in i..Len(str) : \A k \in i..j : IsDigit(str[k])}
  IN IF S = {} THEN i - 1 ELSE CHOOSE j \in S : \A l \in S : l <= j

Lit(str, i, ch) == i <= Len(str) /\ str[i] = ch

\* the groups of /\[(\d+),(\d+)\]\[(\d+),(\d+)\]/ matched at index i, or <<>>
MatchAt(str, i) ==
  LET a1 == RunEnd(str, i + 1)
      a2 == RunEnd(str, a1 + 2)
      a3 == RunEnd(str, a2 + 3)
      a4 == RunEnd(str, a3 + 2)
  IN IF /\ Lit(str, i, "[") /\ a1 >= i + 1 /\ Lit(str, a1 + 1, ",")
        /\ a2 >= a1 + 2 /\ Lit(str, a2 + 1, "]") /\ Lit(str, a2 + 2, "[")
        /\ a3 >= a2 + 3 /\ Lit(str, a3 + 1, ",")
        /\ a4 >= a3 + 2 /\ Lit(str, a4 + 1, "]")
     THEN <<SubSeq(str, i + 1, a1), SubSeq(str, a1 + 2, a2),
            SubSeq(str, a2 + 3, a3), SubSeq(str, a3 + 2, a4)>>
     ELSE <<>>

\* boundsStr.match(...): the groups of the leftmost match, or <<>> for null
BoundsMatch(str) ==
  LET S == {i \in DOMAIN str : MatchAt(str, i) # <<>>}
  IN IF S = {} THEN <<>> ELSE MatchAt(str, CHOOSE i \in S : \A l \in S : i <= l)

ZeroBounds ==
  [left |-> 0, top |-> 0, right |-> 0, bottom |-> 0,
   centerX |-> 0, centerY |-> 0, width |-> 0, height |-> 0]

\* half of n, rounded up
HalfCeil(n) == (n + 1) \div 2

\* Math.floor(n / 2)
HalfFloor(n) == n \div 2

\* boundsStr is <<>> when the argument is undefined, else <<string>>
parseBounds(boundsStr) ==
  IF IsUndefined(boundsStr) THEN ZeroBounds
  ELSE IF boundsStr[1] = <<>> THEN ZeroBounds
  ELSE LET match == BoundsMatch(boundsStr[1])
       IN IF match = <<>> THEN ZeroBounds
          ELSE LET left == NumberOf(match[1])
                   top == NumberOf(match[2])
                   right == NumberOf(match[3])
                   bottom == NumberOf(match[4])
               IN [left |-> left, top |-> top, right |-> right, bottom |-> bottom,
                   centerX |-> HalfFloor(left + right),
                   centerY |-> HalfFloor(top + bottom),
                   width |-> right - left, height |-> bottom - top]

RECURSIVE Decimal(_)
\* the decimal digits of a natural number
Decimal(n) ==
  IF n < 10 THEN <<DigitChars[n + 1]>>
  ELSE Decimal(n \div 10) \o <<DigitChars[(n % 10) + 1]>>

\* the string "[l,t][r,b]"
BoundsString(l, t, r, b) ==
  <<"[">> \o Decimal(l) \o <<",">> \o Decimal(t) \o <<"]", "[">>
    \o Decimal(r) \o <<",">> \o Decimal(b) \o <<"]">>

Coords == 0..BoundsMaxCoord

\* bounds attributes as uiautomator writes them
FormattedBounds ==
  { [form |-> "formatted", arg |-> <<BoundsString(l, t, r, b)>>,
     nums |-> <<l, t, r, b>>] : l, t, r, b \in Coords }

\* absent, empty and damaged bounds attributes
MalformedBounds ==
  { [form |-> "missing", arg |-> <<>>, nums |-> <<>>] }
  \cup
  { [form |-> "malformed", arg |-> <<str>>, nums |-> <<>>] :
      str \in { <<>>,
                <<"[", "1", ",", "2", "]">>,
                <<"[", "1", ",", "2", "]", "[", "3", ",", "4">>,
                <<"[", "1", ",", "2", "]", " ", "[", "3", ",", "4", "]">>,
                <<"[", "-", "1", ",", "2", "]", "[", "3", ",", "4", "]">>,
                <<"[", "1", ";", "2", "]", "[", "3", ";", "4", "]">>,
                <<"[", ",", "2", "]", "[", "3", ",", "4", "]">>,
                <<"1", ",", "2", ",", "3", ",", "4">>,
                <<"n", "u", "l", "l">> } }
  \cup
  { [form |-> "embedded",
     arg |-> << <<"x">> \o BoundsString(1, 2, 3, 4) \o <<"y">> >>,
     nums |-> <<1, 2, 3, 4>>] }

BoundsInit ==
  /\ pIn \in FormattedBounds \cup MalformedBounds
  /\ pOut = EmptyObj
  /\ pPhase = "called"
  /\ LoopIdle
  /\ limits = [instr |-> 0, rounds |-> 0]
  /\ OtherIdleNoPure

\* parseBounds(pIn.arg) returns
ParseBounds ==
  /\ pPhase = "called"
  /\ pOut' = parseBounds(pIn.arg)
  /\ pPhase' = "returned"
  /\ UNCHANGED <<pIn, loopVars, heapVars, normVars, sAll, routeVars>>

BoundsNext == ParseBounds

SpecBounds == BoundsInit /\ [][BoundsNext]_vars

(***************************************************************************)
(* uiExtractor: findClickableElements.  A UIElement is                     *)
(* [type, id, text, contentDesc, clickable, children].                     *)
(***************************************************************************)
\* `opt && ...`: the option is neither undefined nor the empty string
Truthy(options, f) == Has(options, f) /\ options[f] # ""

\* `matches` in traverse
Matches(element, options) ==
  /\ Truthy(options, "text") => element.text = options["text"]
  /\ Truthy(options, "contentDesc") => element.contentDesc = options["contentDesc"]
  /\ Truthy(options, "resourceId") => element.id = options["resourceId"]
  /\ Truthy(options, "className") => element.type = options["className"]

RECURSIVE traverse(_, _)
RECURSIVE TraverseAll(_, _)

\* the elements traverse(element) pushes onto results, in push order
traverse(element, options) ==
  (IF Matches(element, options) /\ element.clickable THEN <<element>> ELSE <<>>)
    \o TraverseAll(element.children, options)

\* element.children.forEach(traverse)
TraverseAll(children, options) ==
  IF children = <<>> THEN <<>>
  ELSE traverse(Head(children), options) \o TraverseAll(Tail(children), options)

findClickableElements(elements, options) == traverse(elements, options)

ElementLabels ==
  { [type |-> "Button", id |-> "ok_btn", text |-> "OK", contentDesc |-> "confirm",
     clickable |-> TRUE],
    [type |-> "TextView", id |-> "", text |-> "OK", contentDesc |-> "",
     clickable |-> FALSE],
    [type |-> "Layout", id |-> "", text |-> "", contentDesc |-> "",
     clickable |-> TRUE] }

RECURSIVE TreesOfSize(_)
RECURSIVE ForestsOfSize(_)

\* the element trees with exactly n elements
TreesOfSize(n) ==
  { [type |-> e.type, id |-> e.id, text |-> e.text, contentDesc |-> e.contentDesc,
     clickable |-> e.clickable, children |-> cs] :
      e \in ElementLabels, cs \in ForestsOfSize(n - 1) }

\* the child lists with n elements in all
ForestsOfSize(n) ==
  IF n = 0 THEN {<<>>}
  ELSE UNION { { <<t>> \o f : t \in TreesOfSize(k), f \in ForestsOfSize(n - k) } :
               k \in 1..n }

FindOptions ==
  { WithOptStr(WithOptStr(WithOptStr(o, "contentDesc", cd), "resourceId", id),
               "className", cn) :
      o \in { EmptyObj, [text |-> ""], [text |-> "OK"] },
      cd \in {"", "confirm"}, id \in {"", "ok_btn"}, cn \in {"", "Button"} }

FindInit ==
  /\ pIn \in { [elements |-> tree, options |-> o] :
                 tree \in UNION { TreesOfSize(n) : n \in 1..FindMaxNodes },
                 o \in FindOptions }
  /\ pOut = EmptyObj
  /\ pPhase = "called"
  /\ LoopIdle
  /\ limits = [instr |-> 0, rounds |-> 0]
  /\ OtherIdleNoPure

\* findClickableElements(pIn.elements, pIn.options) returns
FindClickable ==
  /\ pPhase = "called"
  /\ pOut' = [results |-> findClickableElements(pIn.elements, pIn.options)]
  /\ pPhase' = "returned"
  /\ UNCHANGED <<pIn, loopVars, heapVars, normVars, sAll, routeVars>>

FindNext == FindClickable

SpecFind == FindInit /\ [][FindNext]_vars

(***************************************************************************)
(* aiRoutes: the HTTP session surface.  `sessions` is the Map of the       *)
(* module; a request of POST /instruction is suspended at its awaits and   *)
(* keeps a reference to its SessionContext object while it is.             *)
(***************************************************************************)
SessionIds == 1..(RouteMaxPosts + 1)

EmptyInstructionMsg == "instruction-empty"   \* '指令不能为空'

NoSessionMsg == "no-such-session"            \* '会话不存在'

RouteRaws ==
  { JsonAnswer([thinking |-> LongThinking,
                commands |-> <<[type |-> "tap", x |-> 100, y |-> 200]>>]),
    PlainTextAnswer }

\* the route and the session id of the request a response answers
To(route, sessionId) == [route |-> route, sessionId |-> sessionId]

Request(ctx, stage, instruction, shot) ==
  [ctx |-> ctx, stage |-> stage, instruction |-> instruction, shot |-> shot]

RouteInit ==
  /\ sessions = EmptyObj
  /\ reqs = <<>>
  /\ reply = EmptyObj
  /\ now = 1
  /\ LoopIdle
  /\ limits = [instr |-> 0, rounds |-> 0]
  /\ HeapEmpty
  /\ nRaw = EmptyObj
  /\ nOut = EmptyObj
  /\ nOutOld = EmptyObj
  /\ nPhase = "off"
  /\ sAll = <<>>
  /\ PureIdle

\* POST /instruction up to its first await; sessionId 0 stands for a body
\* without sessionId, instruction "" for a body without instruction
PostInstruction(instruction, sessionId) ==
  /\ Len(reqs) < RouteMaxPosts
  /\ IF instruction = ""
     THEN /\ reply' = [to |-> To("POST", sessionId), status |-> 400, success |-> FALSE,
                       error |-> EmptyInstructionMsg]
          /\ UNCHANGED <<sessions, reqs, now, heapVars>>
     ELSE /\ IF sessionId # 0 /\ Has(sessions, sessionId)
             THEN /\ reqs' = Append(reqs, Request(sessions[sessionId], "capture",
                                                  instruction, 0))
                  /\ UNCHANGED <<sessions, heapVars>>
             ELSE /\ ctxObjs' = Append(ctxObjs, [history |-> 0,
                                                 lastOperation |-> NoOperation,
                                                 id |-> now])
                  /\ sessions' = Put(sessions, now, Len(ctxObjs) + 1)
                  /\ reqs' = Append(reqs, Request(Len(ctxObjs) + 1, "capture",
                                                  instruction, 0))
                  /\ UNCHANGED histArrs
          \* the clock may or may not have advanced when the next handler runs
          /\ now' \in {now, now + 1}
          /\ UNCHANGED reply
  /\ UNCHANGED <<loopVars, normVars, sAll, pureVars>>

\* request i is suspended at the await of stage
Suspended(i, stage) == i \in DOMAIN reqs /\ reqs[i].stage = stage

\* getScreenshot and extractUIElements resolved
PostCaptureOk(i) ==
  /\ Suspended(i, "capture")
  /\ reqs' = [reqs EXCEPT ![i].stage = "ai", ![i].shot = now]
  /\ UNCHANGED <<sessions, reply, now, heapVars, loopVars, normVars, sAll, pureVars>>

\* the catch of the POST handler
PostFailed(i, msg) ==
  /\ reqs' = [reqs EXCEPT ![i].stage = "failed"]
  /\ reply' = [to |-> To("POST", Val(Arg(ctxObjs[reqs[i].ctx], "id"))),
               status |-> 500, success |-> FALSE, error |-> msg]
  /\ UNCHANGED <<sessions, now, heapVars, loopVars, normVars, sAll, pureVars>>

\* getScreenshot or extractUIElements threw
PostCaptureFail(i) ==
  /\ Suspended(i, "capture")
  /\ PostFailed(i, CaptureErrorMsg)

\* callLLMAPI threw
PostModelFail(i) ==
  /\ Suspended(i, "ai")
  /\ PostFailed(i, GatewayErrorMsg)

\* callLLMAPI resolved: the rest of handleAIInstruction and of the handler
PostModelOk(i) ==
  /\ Suspended(i, "ai")
  /\ \E raw \in RouteRaws :
       LET r == reqs[i]
           resp == parseModelResponse(raw)
           ui == UIExtractResult(r.shot)
           item == [instruction |-> r.instruction,
                    screenshot |-> Reference(ScreenshotResult(r.shot)),
                    uiElements |-> Reference([elements |-> ui.elements,
                                              timestamp |-> NumberOfIso(ui.timestamp)]),
                    parsedResponse |-> resp]
           h == updateSessionContext(ctxObjs, histArrs, r.ctx, item, now)
           id == Arg(h.objs[r.ctx], "id")
       IN /\ ctxObjs' = h.objs
          /\ histArrs' = h.arrs
          /\ sessions' = IF IsUndefined(id) THEN sessions
                         ELSE Put(sessions, id[1], r.ctx)
          /\ reply' = WithField([to |-> To("POST", Val(id)), status |-> 200,
                                 success |-> TRUE, response |-> resp],
                                "sessionId", id)
  /\ reqs' = [reqs EXCEPT ![i].stage = "done"]
  /\ UNCHANGED <<now, loopVars, normVars, sAll, pureVars>>

\* a view that hands out the stored item as it is
HistoryViewWhole(item) == item

\* one item of the history as GET /session/:sessionId returns it
HistoryView(item) ==
  LET a == WithField([instruction |-> item["instruction"]], "timestamp",
                     Arg(item, "timestamp"))
  IN IF Has(item, "parsedResponse")
     THEN Put(Put(a, "thinking", item["parsedResponse"]["thinking"]),
              "commands", item["parsedResponse"]["commands"])
     ELSE Put(Put(a, "thinking", "null"), "commands", <<>>)

\* GET /session/:sessionId
GetSession(sessionId) ==
  /\ reply' =
       IF ~Has(sessions, sessionId)
       THEN [to |-> To("GET", sessionId), status |-> 404, success |-> FALSE,
             error |-> NoSessionMsg]
       ELSE LET h == HistoryOf(ctxObjs, histArrs, sessions[sessionId])
            IN [to |-> To("GET", sessionId), status |-> 200, success |-> TRUE,
                sessionId |-> sessionId,
                history |-> [k \in DOMAIN h |-> HistoryView(h[k])]]
  /\ UNCHANGED <<sessions, reqs, now, heapVars, loopVars, normVars, sAll, pureVars>>

\* DELETE /session/:sessionId
DeleteSession(sessionId) ==
  /\ sessions' = IF Has(sessions, sessionId) THEN Del(sessions, sessionId) ELSE sessions
  /\ reply' = [to |-> To("DELETE", sessionId), status |-> 200, success |-> TRUE]
  /\ UNCHANGED <<reqs, now, heapVars, loopVars, normVars, sAll, pureVars>>

RouteNext ==
  \/ \E instruction \in {"", InstructionText(1)}, sessionId \in {0} \cup SessionIds :
       PostInstruction(instruction, sessionId)
  \/ \E i \in 1..RouteMaxPosts :
       \/ PostCaptureOk(i)
       \/ PostCaptureFail(i)
       \/ PostModelOk(i)
       \/ PostModelFail(i)
  \/ \E sessionId \in SessionIds :
       \/ GetSession(sessionId)
       \/ DeleteSession(sessionId)

SpecRoute == RouteInit /\ [][RouteNext]_vars

(***************************************************************************)
(* aiService: callLLMAPI, the model gateway.  The environment, the prompt  *)
(* and the screenshot are the inputs; axios.post resolves or rejects.      *)
(***************************************************************************)
ConfigErrorMsg == "api-config-error"         \* 'API配置错误'

\* an Error that carries a message only
PlainError(message) == [message |-> message]

\* an AxiosError without response: the request was made, nothing came back
NoResponseError == [request |-> "sent"]

\* an AxiosError whose response carries the status code
StatusError(status) == [status |-> status]

\* process.env.NAME || ''
EnvOr(env, name) == IF Has(env, name) THEN env[name] ELSE ""

Message(role, content) == [role |-> role, content |-> content]

\* the messages of the request: the system prompt, the context prompts that
\* are not empty, then the user message, which carries the picture when the
\* screenshot has one
OptionalMessage(prompt, f) ==
  IF Has(prompt, f) /\ prompt[f] # "" THEN <<Message("system", prompt[f])>> ELSE <<>>

UserMessage(prompt, screenshot) ==
  IF screenshot # EmptyObj /\ Has(screenshot, "base64") /\ screenshot["base64"] # ""
  THEN Message("user", <<[type |-> "text", text |-> prompt["currentStatePrompt"]],
                         [type |-> "image_url", url |-> screenshot["base64"]]>>)
  ELSE Message("user", prompt["currentStatePrompt"])

Messages(prompt, screenshot) ==
  <<Message("system", prompt["systemPrompt"])>>
    \o OptionalMessage(prompt, "contextPrompt")
    \o OptionalMessage(prompt, "errorContextPrompt")
    \o OptionalMessage(prompt, "recentHistoryPrompt")
    \o <<UserMessage(prompt, screenshot)>>

PostRequest(endpoint, apiKey, modelName, messages) ==
  [endpoint |-> endpoint, authorization |-> apiKey, model |-> modelName,
   messages |-> messages]

\* how a request of axios.post settles: a 2xx response with its body, a
\* response with another status, or no response at all
HttpStatuses == {401, 500}

PostSettles(request) ==
  { Outcome(TRUE, <<request>>, "", data) : data \in {PlainTextAnswer, InvalidApiAnswer} }
    \cup { Outcome(FALSE, <<request>>, StatusError(st), NoResult) : st \in HttpStatuses }
    \cup { Outcome(FALSE, <<request>>, NoResponseError, NoResult) }

\* a gateway that sends the request again when the first one failed
PostWithRetry(request) ==
  { o \in PostSettles(request) : o.ok }
    \cup { Outcome(o2.ok, o1.calls \o o2.calls, o2.err, o2.result) :
             o1 \in { o \in PostSettles(request) : ~o.ok }, o2 \in PostSettles(request) }

Post(request) == PostSettles(request)

\* callLLMAPI: the catch logs the error and throws it again
callLLMAPI(env, prompt, screenshot) ==
  LET messages == Messages(prompt, screenshot)
      apiKey == EnvOr(env, "LLM_API_KEY")
      modelName == EnvOr(env, "LLM_MODEL")
      endpoint == EnvOr(env, "LLM_ENDPOINT")
  IN IF apiKey = "" \/ modelName = "" \/ endpoint = ""
     THEN { Outcome(FALSE, <<>>, PlainError(ConfigErrorMsg), NoResult) }
     ELSE Post(PostRequest(endpoint, apiKey, modelName, messages))

\* the environments: every variable unset, empty or set
EnvVars == {"LLM_API_KEY", "LLM_MODEL", "LLM_ENDPOINT"}

Environments ==
  UNION { [s -> {"", "set"}] : s \in SUBSET EnvVars }

Prompts ==
  UNION { [s \cup {"systemPrompt", "currentStatePrompt"} -> {"text"}] :
            s \in SUBSET {"contextPrompt", "errorContextPrompt", "recentHistoryPrompt"} }
    \cup { [systemPrompt |-> "text", currentStatePrompt |-> "text", contextPrompt |-> ""] }

Screenshots == { EmptyObj, [path |-> "p"], [base64 |-> ImageData, path |-> "p"] }

GatewayInit ==
  /\ pIn \in [env : Environments, prompt : Prompts, screenshot : Screenshots]
  /\ pOut = EmptyObj
  /\ pPhase = "called"
  /\ LoopIdle
  /\ limits = [instr |-> 0, rounds |-> 0]
  /\ OtherIdleNoPure

\* callLLMAPI(prompt, screenshot) settles
Infer ==
  /\ pPhase = "called"
  /\ pOut' \in callLLMAPI(pIn.env, pIn.prompt, pIn.screenshot)
  /\ pPhase' = "returned"
  /\ UNCHANGED <<pIn, loopVars, heapVars, normVars, sAll, routeVars>>

GatewayNext == Infer

SpecGateway == GatewayInit /\ [][GatewayNext]_vars

(***************************************************************************)
(* aiService: the prompts.  A prompt text is the sequence of its lines;    *)
(* a line is [kind, index, text, types].                                   *)
(***************************************************************************)
INSTRUCT_HISTORY == 3        \* sessionContext.history.slice(-3)

CORRECT_HISTORY == 1         \* sessionContext.history.slice(-1)

PROMPT_THINKING == 1000      \* thinking.substring(0, 1000)

PromptLine(kind, index, text, types) ==
  [kind |-> kind, index |-> index, text |-> text, types |-> types]

\* commands.map((cmd) => cmd.type)
CommandTypes(commands) == [i \in DOMAIN commands |-> commands[i]["type"]]

HasCommands(item) ==
  /\ Has(item, "parsedResponse")
  /\ Has(item["parsedResponse"], "commands")
  /\ Len(item["parsedResponse"]["commands"]) > 0

HasThinking(item) ==
  /\ Has(item, "parsedResponse")
  /\ Has(item["parsedResponse"], "thinking")
  /\ item["parsedResponse"]["thinking"] # ""

ExecLines(item) ==
  IF HasCommands(item)
  THEN <<PromptLine("exec", 0, "", CommandTypes(item["parsedResponse"]["commands"]))>>
  ELSE <<>>

\* what the forEach of buildInstructionPrompt adds for item number index
InstructItemLines(item, index) ==
  <<PromptLine("operation", index, item["instruction"], <<>>)>>
    \o (IF HasThinking(item)
        THEN <<PromptLine("analysis", 0,
                          Substring0(item["parsedResponse"]["thinking"], PROMPT_THINKING),
                          <<>>)>>
        ELSE <<>>)
    \o ExecLines(item)

\* what the forEach of buildErrorCorrectionPrompt adds for an item
CorrectItemLines(item) ==
  <<PromptLine("operation", 0, item["instruction"], <<>>)>> \o ExecLines(item)

RECURSIVE InstructLines(_, _)
InstructLines(items, index) ==
  IF index > Len(items) THEN <<>>
  ELSE InstructItemLines(items[index], index) \o InstructLines(items, index + 1)

RECURSIVE CorrectLines(_, _)
CorrectLines(items, index) ==
  IF index > Len(items) THEN <<>>
  ELSE CorrectItemLines(items[index]) \o CorrectLines(items, index + 1)

\* slices that take one item more than the program does
SliceLastMore(arr, n) == SliceLast(arr, n + 1)

RecentHistory(history, n) == SliceLast(history, n)

\* the contextPrompt of buildInstructionPrompt; <<>> is the empty text
InstructContext(history) ==
  IF Len(history) > 0
  THEN <<PromptLine("header", 0, "history", <<>>)>>
         \o InstructLines(RecentHistory(history, INSTRUCT_HISTORY), 1)
  ELSE <<>>

\* the recentHistoryPrompt of buildErrorCorrectionPrompt
CorrectContext(history) ==
  IF Len(history) > 0
  THEN <<PromptLine("header", 0, "recent", <<>>)>>
         \o CorrectLines(RecentHistory(history, CORRECT_HISTORY), 1)
  ELSE <<>>

buildInstructionPrompt(instruction, history) ==
  [systemPrompt |-> "instruct", contextPrompt |-> InstructContext(history),
   currentStatePrompt |-> instruction]

buildErrorCorrectionPrompt(error, history) ==
  [systemPrompt |-> "correct", errorContextPrompt |-> error,
   recentHistoryPrompt |-> CorrectContext(history), currentStatePrompt |-> ""]

(***************************************************************************)
(* formatUIElements of the earlier aiService revision: the rendering of    *)
(* the element tree, a sequence of lines [indent, kind, value].            *)
(***************************************************************************)
CHILDREN_SHOWN == 5          \* element.children.slice(0, 5)

UnknownType == "unknown"     \* '未知'

NoElementsText == "no-ui-elements"   \* '无法获取UI元素'

TreeLine(indent, kind, value) == [indent |-> indent, kind |-> kind, value |-> value]

Least(a, b) == IF a < b THEN a ELSE b

\* a line for a string field that is set and not empty
FieldLine(element, f, indent) ==
  IF Has(element, f) /\ element[f] # ""
  THEN <<TreeLine(indent, f, element[f])>> ELSE <<>>

ClickableLine(element, indent) ==
  IF Has(element, "clickable") /\ element["clickable"]
  THEN <<TreeLine(indent, "clickable", TRUE)>> ELSE <<>>

PositionLine(element, indent) ==
  IF Has(element, "bounds")
  THEN <<TreeLine(indent, "position",
                  <<element["bounds"]["centerX"], element["bounds"]["centerY"]>>)>>
  ELSE <<>>

RECURSIVE formatElement(_, _)
RECURSIVE FormatEach(_, _, _)

formatElement(element, indent) ==
  LET children == IF Has(element, "children") THEN element["children"] ELSE <<>>
      typ == IF Has(element, "type") /\ element["type"] # ""
             THEN element["type"] ELSE UnknownType
  IN <<TreeLine(indent, "type", typ)>>
       \o FieldLine(element, "text", indent)
       \o FieldLine(element, "contentDesc", indent)
       \o FieldLine(element, "id", indent)
       \o ClickableLine(element, indent)
       \o PositionLine(element, indent)
       \o (IF Len(children) > 0
           THEN <<TreeLine(indent, "children",
                           <<Least(CHILDREN_SHOWN, Len(children)), Len(children)>>)>>
                  \o FormatEach(SliceFirst(children, CHILDREN_SHOWN), 1, indent + 1)
                  \o (IF Len(children) > CHILDREN_SHOWN
                      THEN <<TreeLine(indent, "omitted", Len(children) - CHILDREN_SHOWN)>>
                      ELSE <<>>)
           ELSE <<>>)

\* limitedChildren.forEach((child) => result += formatElement(child, indent + 1))
FormatEach(children, k, indent) ==
  IF k > Len(children) THEN <<>>
  ELSE formatElement(children[k], indent) \o FormatEach(children, k + 1, indent)

formatUIElements(uiElements) ==
  IF uiElements = EmptyObj \/ ~Has(uiElements, "elements")
  THEN <<TreeLine(0, "none", NoElementsText)>>
  ELSE formatElement(uiElements["elements"], 0)

\* the histories: item k carries instruction number k
HistoryItems(k) ==
  { [instruction |-> InstructionText(k) , index |-> k,
     parsedResponse |-> [thinking |-> th, commands |-> cs]] :
      th \in {"", "thinking", HugeThinking},
      cs \in {<<>>, <<[type |-> "tap"], [type |-> "back"]>>} }

RECURSIVE HistoriesOfLen(_)
HistoriesOfLen(n) ==
  IF n = 0 THEN {<<>>}
  ELSE { Append(h, it) : h \in HistoriesOfLen(n - 1), it \in HistoryItems(n) }

\* the element trees: a root whose children are leaves or lists
Leaf(type, id) == [type |-> type, id |-> id, text |-> "", clickable |-> (type # "")]

ListOf(n) == [type |-> "List", id |-> "list", text |-> "",  clickable |-> FALSE,
              children |-> [i \in 1..n |-> Leaf("Item", DigitChars[i + 1])]]

Kids ==
  { Put(Leaf("Button", "ok_btn"), "bounds", [centerX |-> 50, centerY |-> 60]),
    Leaf("", ""), ListOf(2), ListOf(FormatMaxChildren) }

FormatTrees ==
  { [type |-> "Layout", children |-> cs] : cs \in SeqsUpTo(Kids, FormatMaxChildren) }

PromptInit ==
  /\ pIn \in { [fn |-> mode, history |-> h] :
                 mode \in {"instruct", "correct"},
                 h \in UNION { HistoriesOfLen(n) : n \in 0..PromptMaxHistory } }
             \cup { [fn |-> "format", uiElements |-> u] :
                      u \in {EmptyObj, [timestamp |-> NaN]}
                              \cup { [elements |-> t, timestamp |-> NaN] : t \in FormatTrees } }
  /\ pOut = EmptyObj
  /\ pPhase = "called"
  /\ LoopIdle
  /\ limits = [instr |-> 0, rounds |-> 0]
  /\ OtherIdleNoPure

\* buildInstructionPrompt / buildErrorCorrectionPrompt returns
BuildPrompt ==
  /\ pPhase = "called"
  /\ pIn.fn \in {"instruct", "correct"}
  /\ pOut' = IF pIn.fn = "instruct"
             THEN buildInstructionPrompt(InstructionText(1), pIn.history)
             ELSE buildErrorCorrectionPrompt(DeviceError, pIn.history)
  /\ pPhase' = "returned"
  /\ UNCHANGED <<pIn, loopVars, heapVars, normVars, sAll, routeVars>>

\* formatUIElements(uiElements) returns
FormatElements ==
  /\ pPhase = "called"
  /\ pIn.fn = "format"
  /\ pOut' = [text |-> formatUIElements(pIn.uiElements)]
  /\ pPhase' = "returned"
  /\ UNCHANGED <<pIn, loopVars, heapVars, normVars, sAll, routeVars>>

PromptNext == BuildPrompt \/ FormatElements

SpecPrompt == PromptInit /\ [][PromptNext]_vars

(***************************************************************************)
(* uiExtractor: extractUIElements and processNode.  The parsed capture is  *)
(* the object of the XML parser: with explicitArray false the field `node` *)
(* of a node is an object for one child and an array for several.          *)
(***************************************************************************)
InvalidHierarchyMsg == "invalid-ui-hierarchy"   \* '无效的UI层次结构'

HierarchyErrorMsg == "hierarchy-unavailable"    \* getUIHierarchy throws

\* a value that is falsy: undefined, null or the empty string
Nothing == [falsy |-> TRUE]

\* !node
Falsy(node) == Has(node, "falsy")

\* the one child is kept in a list of its own, so that both shapes compare
One(child) == [isArray |-> FALSE, v |-> <<child>>]

Many(children) == [isArray |-> TRUE, v |-> children]

\* Array.isArray(node.node) ? node.node : [node.node]
ChildNodes(node) ==
  IF node["node"].isArray THEN node["node"].v ELSE <<node["node"].v[1]>>

\* children that stay at the depth of their parent
SameDepth(depth) == depth

ChildDepth(depth) == depth + 1

RECURSIVE processNode(_, _)
RECURSIVE ProcessEach(_, _, _)

\* processNode(node, depth) for a node that is not falsy
processNode(node, depth) ==
  [type |-> Val(Arg(node, "class")),
   id |-> Val(Arg(node, "resource_id")),
   text |-> Val(Arg(node, "text")),
   contentDesc |-> Val(Arg(node, "content_desc")),
   clickable |-> (Has(node, "clickable") /\ node["clickable"] = "true"),
   bounds |-> parseBounds(Arg(node, "bounds")),
   depth |-> depth,
   children |-> IF Has(node, "node")
                THEN ProcessEach(ChildNodes(node), 1, ChildDepth(depth))
                ELSE <<>>]

\* children.map((child) => processNode(child, depth + 1)).filter(Boolean):
\* processNode returns null for a falsy child
ProcessEach(children, k, depth) ==
  IF k > Len(children) THEN <<>>
  ELSE (IF Falsy(children[k]) THEN <<>> ELSE <<processNode(children[k], depth)>>)
         \o ProcessEach(children, k + 1, depth)

\* extractUIElements once getUIHierarchy and the parser have settled:
\* capture is [failed] when one of them threw, else [parsed]
extractUIElements(capture, ts) ==
  IF capture.failed THEN Outcome(FALSE, <<>>, HierarchyErrorMsg, NoResult)
  ELSE IF \/ Falsy(capture.parsed)
          \/ ~Has(capture.parsed, "hierarchy")
          \/ Falsy(capture.parsed["hierarchy"])
          \/ ~Has(capture.parsed["hierarchy"], "node")
          \/ Falsy(capture.parsed["hierarchy"]["node"])
  THEN Outcome(FALSE, <<>>, InvalidHierarchyMsg, NoResult)
  ELSE Outcome(TRUE, <<>>, "",
               [rootNode |-> capture.parsed["hierarchy"]["node"],
                elements |-> processNode(capture.parsed["hierarchy"]["node"], 0),
                timestamp |-> IsoString(ts)])

\* the parsed nodes: a node of class c without children, and with children
NodeClasses == {"Button", "Layout"}

RawNode(c) ==
  [class |-> c, clickable |-> IF c = "Button" THEN "true" ELSE "false",
   bounds |-> BoundsString(0, 0, 10, 10)]

WithChildren(n, children) ==
  IF Len(children) = 0 THEN n
  ELSE IF Len(children) = 1 THEN Put(n, "node", One(children[1]))
  ELSE Put(n, "node", Many(children))

RECURSIVE RawTreesOfSize(_)
RECURSIVE RawForestsOfSize(_)

\* the parsed trees with exactly n nodes; the empty node is what the parser
\* gives for an element without attributes and content
RawTreesOfSize(n) ==
  (IF n = 1 THEN {Nothing} ELSE {})
    \cup { WithChildren(RawNode(c), cs) : c \in NodeClasses, cs \in RawForestsOfSize(n - 1) }

RawForestsOfSize(n) ==
  IF n = 0 THEN {<<>>}
  ELSE UNION { { <<t>> \o f : t \in RawTreesOfSize(k), f \in RawForestsOfSize(n - k) } :
               k \in 1..n }

Captures ==
  { [failed |-> TRUE] }
    \cup { [failed |-> FALSE, parsed |-> p] :
             p \in { Nothing, [hierarchy |-> Nothing], [hierarchy |-> [rotation |-> "0"]] } }
    \cup { [failed |-> FALSE, parsed |-> [hierarchy |-> [rotation |-> "0", node |-> t]]] :
             t \in UNION { RawTreesOfSize(n) : n \in 1..LayoutMaxNodes } }

LayoutInit ==
  /\ pIn \in Captures
  /\ pOut = EmptyObj
  /\ pPhase = "called"
  /\ LoopIdle
  /\ limits = [instr |-> 0, rounds |-> 0]
  /\ OtherIdleNoPure

\* extractUIElements() settles
ParseLayout ==
  /\ pPhase = "called"
  /\ pOut' = extractUIElements(pIn, Clock(1, 1))
  /\ pPhase' = "returned"
  /\ UNCHANGED <<pIn, loopVars, heapVars, normVars, sAll, routeVars>>

LayoutNext == ParseLayout

SpecLayout == LayoutInit /\ [][LayoutNext]_vars

(***************************************************************************)
(* aiService: normalizeCommand called on its own, and again on what it     *)
(* returned.  pIn holds the object passed to the first call as the caller  *)
(* sees it (cmd) next to its fields before the call (original).            *)
(***************************************************************************)
\* a normalizeCommand without the spread: the writes and deletes reach the
\* object of the caller
normalizeCommandInPlace(cmd) ==
  [argument |-> normalizeCommand(cmd), returned |-> normalizeCommand(cmd)]

\* the argument object and the returned object after normalizeCommand(cmd):
\* `normalizedCmd` is the spread copy, every assignment and delete of the
\* function goes to it
normalizeCommandCall(cmd) ==
  [argument |-> cmd, returned |-> normalizeCommand(cmd)]

IdemTypes == {"", "tap", "click", "swipe", "text"}

IdemActions == {"", "click", "swipe", "back"}

IdemCoordinates == {<<>>, <<<<160, 200>>>>, <<<<10, 20, 10, 200>>>>}

IdemCoordinates2 == {<<>>, <<<<10, 200>>>>}

\* raw commands with every combination of type, action, coordinate and
\* coordinate2, each present or absent, next to canonical x and y
IdemCmds ==
  { WithField(WithField(WithOptStr(WithOptStr(base, "type", ty), "action", ac),
                        "coordinate", co), "coordinate2", co2) :
      base \in {EmptyObj, [x |-> 1, y |-> 2]},
      ty \in IdemTypes, ac \in IdemActions,
      co \in IdemCoordinates, co2 \in IdemCoordinates2 }

IdemInit ==
  /\ pIn \in { [original |-> c, cmd |-> c] : c \in IdemCmds }
  /\ pOut = EmptyObj
  /\ pPhase = "called"
  /\ LoopIdle
  /\ limits = [instr |-> 0, rounds |-> 0]
  /\ OtherIdleNoPure

\* normalizeCommand(cmd) returns
NormalizeOnce ==
  /\ pPhase = "called"
  /\ LET call == normalizeCommandCall(pIn.cmd)
     IN /\ pIn' = [pIn EXCEPT !.cmd = call.argument]
        /\ pOut' = [first |-> call.returned]
  /\ pPhase' = "once"
  /\ UNCHANGED <<loopVars, heapVars, normVars, sAll, routeVars>>

\* normalizeCommand(first) returns, first being what the first call returned
NormalizeAgain ==
  /\ pPhase = "once"
  /\ LET call == normalizeCommandCall(pOut.first)
     IN pOut' = [first |-> call.argument, second |-> call.returned]
  /\ pPhase' = "twice"
  /\ UNCHANGED <<pIn, loopVars, heapVars, normVars, sAll, routeVars>>

IdemNext == NormalizeOnce \/ NormalizeAgain

SpecIdem == IdemInit /\ [][IdemNext]_vars

(***************************************************************************)
(* commandExecutor: a composite command whose `commands` may be any value. *)
(* The value is <<>> when the field is missing, else <<[kind, v]>>: kind   *)
(* is "array" for a list (v its items) and the JavaScript type otherwise.  *)
(***************************************************************************)
ArrayValue(items) == [kind |-> "array", v |-> items]

NonArrayValue(kind) == [kind |-> kind, v |-> <<>>]

\* Array.isArray(value)
IsArrayValue(value) == value.kind = "array"

\* executeCommand({type: 'composite', commands}): the guard of
\* executeCompositeCommand sees undefined, a value that is no array, or a list
executeComposite(commands) ==
  IF IsUndefined(commands) THEN executeCommand([type |-> "composite"])
  ELSE IF ~IsArrayValue(commands[1]) THEN Fails(EmptyCompositeMsg)
  ELSE executeCommand([type |-> "composite", commands |-> commands[1].v])

NonArrayKinds == {"string", "object", "number", "boolean", "null"}

CompositeValues ==
  {<<>>} \cup { <<NonArrayValue(k)>> : k \in NonArrayKinds }
         \cup { <<ArrayValue(cs)>> : cs \in SeqsUpTo(InnerCmds, ExecMaxInner) }

CompositeInit ==
  /\ pIn \in { [type |-> "composite", commands |-> c] : c \in CompositeValues }
  /\ pOut = EmptyObj
  /\ pPhase = "called"
  /\ LoopIdle
  /\ limits = [instr |-> 0, rounds |-> 0]
  /\ OtherIdleNoPure

\* executeCommand(pIn) settles
ExecuteComposite ==
  /\ pPhase = "called"
  /\ pOut' \in executeComposite(pIn.commands)
  /\ pPhase' = "returned"
  /\ UNCHANGED <<pIn, loopVars, heapVars, normVars, sAll, routeVars>>

CompositeNext == ExecuteComposite

SpecComposite == CompositeInit /\ [][CompositeNext]_vars

(***************************************************************************)
(* Properties.                                                             *)
(***************************************************************************)
Positions(t) == DOMAIN trace[t]

Count(tr, name) == Cardinality({j \in DOMAIN tr : tr[j].ev = name})

\* a command-result event of a command run by `by`, with outcome ok
IsResult(e, by, ok) ==
  e.ev = "command-result" /\ e.ok = ok /\ e.arg.by = by

MarkedComplete(cmd) == Has(cmd, "isTaskComplete") /\ cmd["isTaskComplete"] = TRUE

MarkedNotComplete(cmd) == ~MarkedComplete(cmd)

\* C1: Completed is terminal.  Once a command of the main loop that carries
\* isTaskComplete = true has succeeded, the instruction makes no further
\* dispatch, capture or model call (also not for commands still queued in an
\* earlier batch of the same instruction).
C1_CompletedIsTerminal ==
  \A t \in Tasks : \A i, j \in Positions(t) :
    (/\ i < j
     /\ IsResult(trace[t][i], MainPrefix, TRUE)
     /\ MarkedComplete(trace[t][i].cmd))
    => trace[t][j].ev \notin {"dispatch", "capture", "model"}

\* C2: a continuation round is issued only after a successful, not-complete
\* command that is the final command of its batch; after a successful,
\* not-complete command marked isFinalCommand = false the next thing the loop
\* does is start the next command of the batch.
C2_ContinuationOnlyAfterFinal ==
  \A t \in Tasks : \A j \in Positions(t) :
    /\ (trace[t][j].ev = "capture" /\ trace[t][j].arg = "continue")
       => /\ j > 1
          /\ IsResult(trace[t][j - 1], MainPrefix, TRUE)
          /\ MarkedNotComplete(trace[t][j - 1].cmd)
          /\ (Has(trace[t][j - 1].cmd, "isFinalCommand")
                => trace[t][j - 1].cmd["isFinalCommand"] = TRUE)
    /\ (/\ IsResult(trace[t][j], MainPrefix, TRUE)
        /\ MarkedNotComplete(trace[t][j].cmd)
        /\ Has(trace[t][j].cmd, "isFinalCommand")
        /\ trace[t][j].cmd["isFinalCommand"] = FALSE
        /\ j < Len(trace[t]))
       => trace[t][j + 1].ev = "command-start"

\* C3: error recovery is a single attempt.  The failure of a corrective
\* command is only reported: it never starts another error-correction
\* sub-flow (no capture of a correction round follows it).
C3_SingleRecoveryAttempt ==
  \A t \in Tasks : \A j \in Positions(t) :
    (IsResult(trace[t][j], CorrectionPrefix, FALSE) /\ j < Len(trace[t]))
    => ~(trace[t][j + 1].ev = "capture" /\ trace[t][j + 1].arg = "correct")

\* the position of the last command-result before position j (0 if none)
LastResultBefore(tr, j) ==
  LET S == {k \in DOMAIN tr : k < j /\ tr[k].ev = "command-result"}
  IN IF S = {} THEN 0 ELSE CHOOSE k \in S : \A l \in S : l <= k

IsCorrectionCall(e) == e.ev = "model" /\ e.arg.mode = "correct"

\* the correction round called at position j answered with no command
AnsweredEmpty(tr, j) ==
  j < Len(tr) /\ tr[j + 1].ev = "error-correction-end"

\* C4 (first half): the correction round is called with exactly the failing
\* command and its error message.
C4_ReceivesFailingCommand ==
  \A t \in Tasks : \A j \in Positions(t) :
    IsCorrectionCall(trace[t][j])
    => LET k == LastResultBefore(trace[t], j)
       IN /\ k > 0
          /\ ~trace[t][k].ok
          /\ trace[t][k].cmd = trace[t][j].cmd
          /\ trace[t][k].arg.error = trace[t][j].arg.message

\* C4: when a command dispatch of the main loop throws, the correction round
\* gets that command and its message, and when the round returns zero
\* corrective commands no further device command is dispatched for the
\* instruction (neither the rest of the batch nor of an enclosing batch).
C4_EmptyCorrectionEndsInstruction ==
  /\ C4_ReceivesFailingCommand
  /\ \A t \in Tasks : \A j, l \in Positions(t) :
       (/\ IsCorrectionCall(trace[t][j])
        /\ LastResultBefore(trace[t], j) > 0
        /\ trace[t][LastResultBefore(trace[t], j)].arg.by = MainPrefix
        /\ AnsweredEmpty(trace[t], j)
        /\ l > j)
       => trace[t][l].ev # "dispatch"

MarkedFinal(cmd) == Has(cmd, "isFinalCommand") /\ cmd["isFinalCommand"] = TRUE

\* C5: a normalized response with a non-empty command list has exactly one
\* command with isFinalCommand = true, the last one, whatever the model
\* supplied and whichever extraction path produced the commands.
C5_ExactlyLastFinal ==
  (nPhase = "parsed" /\ Len(nOut["commands"]) > 0)
  => \A i \in DOMAIN nOut["commands"] :
       MarkedFinal(nOut["commands"][i]) <=> (i = Len(nOut["commands"]))

\* the response went through the JSON branch with a command list
ParsedCommandList ==
  /\ nPhase = "parsed"
  /\ nRaw.choices /\ nRaw.content = "str" /\ nRaw.jsonKind = "object"
  /\ Has(nRaw.json, "commands")

ResponseLevelComplete ==
  IF Has(nRaw.json, "isTaskComplete") THEN nRaw.json["isTaskComplete"] ELSE FALSE

\* isTaskComplete of the normalized commands out, against their raw forms
CompletionDefaulted(out) ==
  /\ Len(out) = Len(nRaw.json["commands"])
  /\ \A i \in DOMAIN out :
       /\ Has(out[i], "isTaskComplete")
       /\ out[i]["isTaskComplete"] =
            IF Has(nRaw.json["commands"][i], "isTaskComplete")
            THEN nRaw.json["commands"][i]["isTaskComplete"]
            ELSE ResponseLevelComplete

\* C6: a command without isTaskComplete gets the response-level value (false
\* when the response has none), a command with its own value keeps it, also
\* when the command went through alias / coordinate repair.  Stated for the
\* normalizer of both revisions of aiService.
C6_CompletionDefaulted ==
  ParsedCommandList
  => /\ CompletionDefaulted(nOut["commands"])
     /\ CompletionDefaulted(nOutOld["commands"])

\* C6 for the current revision alone
C6_CurrentRevision ==
  ParsedCommandList => CompletionDefaulted(nOut["commands"])

\* h holds the newest items of all, at most five, in append order
NewestFive(h, all) ==
  /\ Len(h) <= 5
  /\ Len(h) = (IF Len(all) <= 5 THEN Len(all) ELSE 5)
  /\ \A k \in DOMAIN h : h[k] = all[Len(all) - Len(h) + k]

\* C7: after any number of appends the history has at most 5 items, the most
\* recently appended ones in append order (the oldest is evicted first).
C7_HistoryBounded ==
  /\ NewestFive(HistoryOf(ctxObjs, histArrs, 1),
                [k \in DOMAIN sAll |-> SimplifiedItem(sAll[k])])
  /\ NewestFive(HistoryOf(ctxObjs, histArrs, 2), sAll)

\* an append has evicted the oldest item
C7_Witness ==
  /\ Len(sAll) > 5
  /\ Len(HistoryOf(ctxObjs, histArrs, 1)) = 5
  /\ HistoryOf(ctxObjs, histArrs, 1)[1] = SimplifiedItem(sAll[Len(sAll) - 4])

\* C8: after every completed LLM round-trip of the conversation, the history
\* of socket.sessionContext holds the item of that round-trip as its newest
\* entry, the first instruction on a new connection included.
C8_RoundTripRecorded ==
  lastRoundTrip # EmptyObj
  => LET h == HistoryOf(ctxObjs, histArrs, sockCtx)
     IN /\ sockCtx # 0
        /\ Len(h) > 0
        /\ h[Len(h)] = lastRoundTrip

\* position of the first event named name in tr (0 if none)
FirstPos(tr, name) ==
  LET S == {j \in DOMAIN tr : tr[j].ev = name}
  IN IF S = {} THEN 0 ELSE CHOOSE j \in S : \A l \in S : j <= l

\* the first command of the first response of instruction t
FirstCommand(t) ==
  trace[t][FirstPos(trace[t], "instruction-response")].arg["commands"][1]

\* the first response of instruction t is a single command marked complete
\* and the dispatch of that command by the main loop has succeeded
SingleCompleteSucceeded(t) ==
  LET j == FirstPos(trace[t], "instruction-response")
      k == FirstPos(trace[t], "command-result")
  IN /\ j > 0
     /\ k > j
     /\ Len(trace[t][j].arg["commands"]) = 1
     /\ MarkedComplete(FirstCommand(t))
     /\ FirstCommand(t)["type"] = "tap"
     /\ IsResult(trace[t][k], MainPrefix, TRUE)
     /\ trace[t][k].cmd = FirstCommand(t)

TransportCalls(tr) ==
  LET ev == SelectSeq(tr, LAMBDA e : e.ev = "transport")
  IN [i \in DOMAIN ev |-> ev[i].arg]

OneDispatchInFlight ==
  Cardinality({t \in Tasks : Awaiting(t, "exec")}) <= 1

\* C10: for one socket at most one command dispatch is in flight and the
\* phases of two instructions never overlap, also when a second instruction
\* arrives while the loop of an earlier one is running.
C10_OneLoopAtATime ==
  /\ OneDispatchInFlight
  /\ Cardinality({t \in Tasks : tstate[t] = "running"}) <= 1

IsTagged(cmd, tag) == Has(cmd, "type") /\ cmd["type"] = tag

\* position of the last dispatch before position k (0 if none)
LastDispatchBefore(tr, k) ==
  LET S == {d \in DOMAIN tr : d < k /\ tr[d].ev = "dispatch"}
  IN IF S = {} THEN 0 ELSE CHOOSE d \in S : \A l \in S : l <= d

\* the transport calls logged between the dispatch at d and its result at k
CallsBetween(tr, d, k) == [i \in 1..(k - d - 1) |-> tr[d + i].arg]

\* the number of commands at the head of inner that are taps
LeadingTaps(inner) ==
  Cardinality({i \in DOMAIN inner : \A j \in 1..i : IsTagged(inner[j], "tap")})

TapCall(c) == Call("tap", <<c["x"], c["y"]>>)

\* C11: a composite command dispatches its inner commands strictly in list
\* order; when an inner command fails no later inner command is dispatched,
\* the failure leaves the composite at once, and the loop treats the composite
\* as the failing command: error correction is started for it, with its error.
C11_CompositeInOrder ==
  \A t \in Tasks : \A k \in Positions(t) :
    (trace[t][k].ev = "command-result" /\ IsTagged(trace[t][k].cmd, "composite"))
    => LET tr == trace[t]
           cmd == tr[k].cmd
           inner == cmd["commands"]
           d == LastDispatchBefore(tr, k)
           calls == CallsBetween(tr, d, k)
           n == LeadingTaps(inner)
       IN /\ d > 0
          /\ tr[d].cmd = cmd
          /\ \A i \in (d + 1)..(k - 1) : tr[i].ev = "transport"
          /\ Len(calls) <= n
          /\ \A i \in DOMAIN calls : calls[i] = TapCall(inner[i])
          /\ tr[k].ok => (n = Len(inner) /\ Len(calls) = n)
          /\ (~tr[k].ok /\ tr[k].arg.error = UnknownTypeMsg) => Len(calls) = n
          /\ (~tr[k].ok /\ k < Len(tr))
               => (tr[k + 1].ev = "capture" /\ tr[k + 1].arg = "correct")
          /\ \A j \in DOMAIN tr :
               (j > k /\ IsCorrectionCall(tr[j]) /\ LastResultBefore(tr, j) = k)
               => (tr[j].cmd = cmd /\ tr[j].arg.message = tr[k].arg.error)

\* a composite failed at an inner command that is not its last one, and the
\* correction round for the composite has been called
C11_Witness ==
  \E t \in Tasks : \E k, j \in Positions(t) :
    /\ trace[t][k].ev = "command-result"
    /\ IsTagged(trace[t][k].cmd, "composite")
    /\ ~trace[t][k].ok
    /\ trace[t][k].arg.error = UnknownTypeMsg
    /\ Len(trace[t][k].cmd["commands"]) = 3
    /\ j > k
    /\ IsCorrectionCall(trace[t][j])
    /\ LastResultBefore(trace[t], j) = k

\* executeCommand has settled for a composite with a non-empty command list
CompositeSettled ==
  /\ pPhase = "returned"
  /\ IsTagged(pIn, "composite")
  /\ Has(pIn, "commands")
  /\ Len(pIn["commands"]) > 0

\* results holds, in order, a result of each of the first n inner commands
ResultsInOrder(results, inner, n) ==
  /\ Len(results) = n
  /\ \A i \in 1..n :
       results[i] \in { o.result : o \in { q \in executeCommand(inner[i]) : q.ok } }

\* C12 (all succeed): results has one entry per inner command, in order, and
\* success is true.
C12_AllSucceeded ==
  (CompositeSettled /\ pOut.ok)
  => /\ Has(pOut.result, "results")
     /\ pOut.result["success"] = TRUE
     /\ ResultsInOrder(pOut.result["results"], pIn["commands"], Len(pIn["commands"]))

\* C12: the outcome of a composite is a CompositeResult{success, results}:
\* when an inner command fails, results holds the results of the inner
\* commands that succeeded before it plus the result of the failing one; when
\* all succeed, one entry per inner command in order and success = true.
C12_CompositeResult ==
  /\ C12_AllSucceeded
  /\ (CompositeSettled /\ ~pOut.ok)
     => /\ Has(pOut.result, "results")
        /\ pOut.result["success"] = FALSE
        /\ Len(pOut.result["results"]) >= 1
        /\ Len(pOut.result["results"]) <= Len(pIn["commands"])

HasAll(cmd, fields) == fields \subseteq DOMAIN cmd

\* a command that lacks a required field of its tag
MissingRequired(cmd) ==
  \/ IsTagged(cmd, "tap") /\ ~HasAll(cmd, {"x", "y"})
  \/ IsTagged(cmd, "swipe") /\ ~HasAll(cmd, {"startX", "startY", "endX", "endY"})
  \/ IsTagged(cmd, "text") /\ ~HasAll(cmd, {"text"})
  \/ IsTagged(cmd, "key") /\ ~HasAll(cmd, {"keycode"})

\* C13: executeCommand fails with the invalid-command error for a command
\* that lacks a required field of its tag, and makes no transport call.
C13_MissingFieldRejected ==
  (pPhase = "returned" /\ MissingRequired(pIn))
  => /\ ~pOut.ok
     /\ pOut.err = InvalidCommandMsg
     /\ pOut.calls = <<>>

KnownTags ==
  {"tap", "swipe", "text", "key", "wait", "back", "home", "app_switch", "composite"}

NoKnownTag(cmd) == ~Has(cmd, "type") \/ cmd["type"] \notin KnownTags

\* C14: executeCommand fails for a command whose tag is missing or is none of
\* the nine known tags, without a transport call; the loop reports the failure
\* as an unsuccessful command-result and starts the error-correction sub-flow
\* for that command.
C14_UnknownTagRecovered ==
  \A t \in Tasks : \A k \in Positions(t) :
    (trace[t][k].ev = "command-result" /\ NoKnownTag(trace[t][k].cmd))
    => LET tr == trace[t]
       IN /\ ~tr[k].ok
          /\ tr[k].arg.error =
               (IF Has(tr[k].cmd, "type") THEN UnknownTypeMsg ELSE InvalidCommandMsg)
          /\ LastDispatchBefore(tr, k) = k - 1
          /\ k < Len(tr) => (tr[k + 1].ev = "capture" /\ tr[k + 1].arg = "correct")
          /\ \A j \in DOMAIN tr :
               (j > k /\ IsCorrectionCall(tr[j]) /\ LastResultBefore(tr, j) = k)
               => (tr[j].cmd = tr[k].cmd /\ tr[j].arg.message = tr[k].arg.error)

\* a command without a tag was the first command dispatched, and its
\* correction round has been called
C14_Witness ==
  \E t \in Tasks : \E k, j \in Positions(t) :
    /\ trace[t][k].ev = "command-result"
    /\ ~Has(trace[t][k].cmd, "type")
    /\ Count(SubSeq(trace[t], 1, k), "dispatch") = 1
    /\ j > k
    /\ IsCorrectionCall(trace[t][j])
    /\ LastResultBefore(trace[t], j) = k

\* the one transport call executeCommand made was op(args)
OneCall(op, args) == pOut.calls = <<Call(op, args)>>

\* C15: each tag maps to exactly one transport call with the command's own
\* arguments: tap -> tap(x,y), swipe -> swipe(startX,startY,endX,endY,duration),
\* text -> inputText(text), key -> pressKey(keycode), back -> pressKey(4),
\* home -> pressKey(3), app_switch -> pressKey(187); wait makes no transport
\* call and succeeds after its delay, 1000 ms when duration is absent.
C15_TagToTransport ==
  (pPhase = "returned" /\ Has(pIn, "type") /\ ~MissingRequired(pIn))
  => CASE pIn["type"] = "tap" -> OneCall("tap", <<pIn["x"], pIn["y"]>>)
       [] pIn["type"] = "swipe" ->
            /\ Len(pOut.calls) = 1
            /\ pOut.calls[1].op = "swipe"
            /\ SubSeq(pOut.calls[1].args, 1, 4) =
                 <<pIn["startX"], pIn["startY"], pIn["endX"], pIn["endY"]>>
            /\ IF Has(pIn, "duration")
               THEN pOut.calls[1].args[5] = pIn["duration"]
               ELSE pOut.calls[1].args[5] = "undefined"
       [] pIn["type"] = "text" -> OneCall("inputText", <<pIn["text"]>>)
       [] pIn["type"] = "key" -> OneCall("pressKey", <<pIn["keycode"]>>)
       [] pIn["type"] = "back" -> OneCall("pressKey", <<4>>)
       [] pIn["type"] = "home" -> OneCall("pressKey", <<3>>)
       [] pIn["type"] = "app_switch" -> OneCall("pressKey", <<187>>)
       [] pIn["type"] = "wait" ->
            /\ pOut.calls = <<>>
            /\ pOut.ok
            /\ ~Has(pIn, "duration") => pOut.result["duration"] = 1000
            /\ (Has(pIn, "duration") /\ pIn["duration"] > 0)
                 => pOut.result["duration"] = pIn["duration"]
       [] OTHER -> TRUE

\* a tap with both coordinates has been executed and has succeeded
C15_Witness ==
  /\ pPhase = "returned"
  /\ IsTagged(pIn, "tap")
  /\ HasAll(pIn, {"x", "y"})
  /\ pOut.ok
  /\ Len(pOut.calls) = 1

\* the position of the capture that the model call at position j follows
CaptureOf(tr, j) ==
  IF j > 1 /\ tr[j - 1].ev = "capture" THEN j - 1
  ELSE IF j > 2 /\ tr[j - 2].ev = "capture"
            /\ tr[j - 1].ev \in {"handle-instruction-start", "error-correction-start"}
       THEN j - 2
  ELSE 0

\* C16: every model call of the loop (initial, continuation, correction) is
\* preceded by a capture taken in the same round and is given the snapshot of
\* that capture, never the one of an earlier round; when the capture fails no
\* model call is made in that round.
C16_FreshCapturePerRound ==
  \A t \in Tasks : \A j \in Positions(t) :
    /\ trace[t][j].ev = "model"
       => /\ CaptureOf(trace[t], j) > 0
          /\ trace[t][j].arg.snapshot.task = t
          /\ trace[t][j].arg.snapshot.step = CaptureOf(trace[t], j)
    /\ trace[t][j].ev = "capture-failed"
       => /\ j > 1
          /\ trace[t][j - 1].ev = "capture"
          /\ j < Len(trace[t]) => trace[t][j + 1].ev = "error"

\* an instruction has had an initial, a continuation and a correction round
C16_Witness ==
  \E t \in Tasks : \E i, j \in Positions(t) :
    /\ trace[t][i].ev = "model"
    /\ trace[t][i].arg.mode = "continue"
    /\ trace[t][j].ev = "model"
    /\ trace[t][j].arg.mode = "correct"

\* the tag the model meant: type, or action when there is no type
MeantTag(r) ==
  IF Has(r, "type") THEN r["type"] ELSE IF Has(r, "action") THEN r["action"] ELSE ""

HasArray(r, f, n) == Has(r, f) /\ Len(r[f]) = n

\* o is the repaired form of the raw command r
Repaired(r, o) ==
  /\ (Has(r, "action") /\ ~Has(r, "type"))
     => /\ ~Has(o, "action")
        /\ Has(o, "type")
        /\ o["type"] = (IF r["action"] = "click" THEN "tap" ELSE r["action"])
  /\ (MeantTag(r) \in {"tap", "click"} /\ HasArray(r, "coordinate", 2))
     => /\ IsTagged(o, "tap")
        /\ HasAll(o, {"x", "y"})
        /\ o["x"] = r["coordinate"][1]
        /\ o["y"] = r["coordinate"][2]
        /\ ~Has(o, "coordinate")
  /\ (MeantTag(r) = "swipe" /\ HasArray(r, "coordinate", 2) /\ HasArray(r, "coordinate2", 2))
     => /\ IsTagged(o, "swipe")
        /\ HasAll(o, {"startX", "startY", "endX", "endY"})
        /\ <<o["startX"], o["startY"]>> = r["coordinate"]
        /\ <<o["endX"], o["endY"]>> = r["coordinate2"]
        /\ ~Has(o, "coordinate")
        /\ ~Has(o, "coordinate2")
  /\ (MeantTag(r) = "swipe" /\ HasArray(r, "coordinate", 4))
     => /\ IsTagged(o, "swipe")
        /\ HasAll(o, {"startX", "startY", "endX", "endY"})
        /\ <<o["startX"], o["startY"], o["endX"], o["endY"]>> = r["coordinate"]
        /\ ~Has(o, "coordinate")

AllRepaired(out) ==
  /\ Len(out) = Len(nRaw.json["commands"])
  /\ \A i \in DOMAIN out : Repaired(nRaw.json["commands"][i], out[i])

\* C17: alias repair.  `action` without `type` becomes `type`; a tap / click
\* with a two-element coordinate becomes a tap with x, y and no coordinate; a
\* swipe with coordinate pairs or one four-element coordinate gets startX,
\* startY, endX, endY and loses the coordinate fields; the repairs compose.
\* Stated for the normalizer of both revisions of aiService.
C17_AliasRepair ==
  ParsedCommandList
  => /\ AllRepaired(nOut["commands"])
     /\ AllRepaired(nOutOld["commands"])

\* C17 for the current revision alone
C17_CurrentRevision ==
  ParsedCommandList => AllRepaired(nOut["commands"])

CoordinateFields == {"x", "y", "startX", "startY", "endX", "endY"}

Canonical(r) ==
  /\ Has(r, "type")
  /\ r["type"] \in KnownTags
  /\ DOMAIN r \cap {"action", "coordinate", "coordinate2"} = {}

SameCoordinates(r, o) ==
  /\ IsTagged(o, r["type"])
  /\ DOMAIN o \cap CoordinateFields = DOMAIN r \cap CoordinateFields
  /\ \A f \in DOMAIN r \cap CoordinateFields : o[f] = r[f]

\* C18: normalizing a response whose commands already use the canonical
\* schema leaves type and the coordinate fields of every command unchanged,
\* and the order and number of the commands unchanged.
C18_CanonicalUnchanged ==
  (ParsedCommandList /\ \A i \in DOMAIN nRaw.json["commands"] :
                          Canonical(nRaw.json["commands"][i]))
  => /\ Len(nOut["commands"]) = Len(nRaw.json["commands"])
     /\ \A i \in DOMAIN nOut["commands"] :
          SameCoordinates(nRaw.json["commands"][i], nOut["commands"][i])

\* a canonical tap followed by a canonical swipe has been normalized
C18_Witness ==
  /\ ParsedCommandList
  /\ Len(nRaw.json["commands"]) = 2
  /\ IsTagged(nRaw.json["commands"][1], "tap")
  /\ IsTagged(nRaw.json["commands"][2], "swipe")
  /\ Canonical(nRaw.json["commands"][1])
  /\ Canonical(nRaw.json["commands"][2])
  /\ IsTagged(nOut["commands"][2], "swipe")

\* C19: for a bounds string "[l,t][r,b]" of non-negative integers parseBounds
\* returns left = l, top = t, right = r, bottom = b, centerX = floor((l+r)/2),
\* centerY = floor((t+b)/2), width = r - l, height = b - t; for a missing or
\* non-matching string it returns the all-zero record (and never throws).
C19_ParseBounds ==
  pPhase = "returned"
  => /\ pIn.form = "formatted"
        => LET l == pIn.nums[1]
               t == pIn.nums[2]
               r == pIn.nums[3]
               b == pIn.nums[4]
           IN /\ pOut.left = l /\ pOut.top = t /\ pOut.right = r /\ pOut.bottom = b
              /\ 2 * pOut.centerX <= l + r /\ l + r < 2 * pOut.centerX + 2
              /\ 2 * pOut.centerY <= t + b /\ t + b < 2 * pOut.centerY + 2
              /\ pOut.width = r - l
              /\ pOut.height = b - t
     /\ pIn.form \in {"missing", "malformed"}
        => /\ DOMAIN pOut = {"left", "top", "right", "bottom",
                             "centerX", "centerY", "width", "height"}
           /\ \A f \in DOMAIN pOut : pOut[f] = 0

\* a string with two-digit numbers and an odd sum has been parsed
C19_Witness ==
  /\ pPhase = "returned"
  /\ pIn.form = "formatted"
  /\ pIn.nums[1] >= 10
  /\ (pIn.nums[1] + pIn.nums[3]) % 2 = 1
  /\ pOut.centerX > 0

RECURSIVE PathsOf(_)
\* the elements of a tree, each named by the child indexes that lead to it
PathsOf(e) ==
  {<<>>} \cup UNION { { <<i>> \o p : p \in PathsOf(e.children[i]) } :
                      i \in DOMAIN e.children }

RECURSIVE ElementAt(_, _)
ElementAt(e, p) ==
  IF p = <<>> THEN e ELSE ElementAt(e.children[Head(p)], Tail(p))

\* p comes before q in depth-first pre-order: p is an ancestor of q, or p
\* branches off to the left of q
Before(p, q) ==
  \/ Len(p) < Len(q) /\ SubSeq(q, 1, Len(p)) = p
  \/ \E k \in 1..Len(p) :
       /\ k <= Len(q)
       /\ SubSeq(p, 1, k - 1) = SubSeq(q, 1, k - 1)
       /\ p[k] < q[k]

\* results is the list of the elements at the paths W, in pre-order
ListsInPreOrder(results, tree, W) ==
  /\ Len(results) = Cardinality(W)
  /\ \A p \in W :
       results[Cardinality({q \in W : Before(q, p)}) + 1] = ElementAt(tree, p)

\* element equals every predicate field that is supplied
MatchesAll(element, options) ==
  /\ Has(options, "text") => element.text = options["text"]
  /\ Has(options, "contentDesc") => element.contentDesc = options["contentDesc"]
  /\ Has(options, "resourceId") => element.id = options["resourceId"]
  /\ Has(options, "className") => element.type = options["className"]

\* C20: findClickableElements returns, in depth-first pre-order, exactly the
\* elements that are clickable and whose text, contentDesc, id and type equal
\* every supplied predicate field; an unset field matches every element; a
\* non-clickable element is never returned, its descendants are still visited.
C20_FindClickable ==
  pPhase = "returned"
  => ListsInPreOrder(pOut.results, pIn.elements,
       { p \in PathsOf(pIn.elements) :
           /\ ElementAt(pIn.elements, p).clickable
           /\ MatchesAll(ElementAt(pIn.elements, p), pIn.options) })

\* C20 for predicates without an empty string
C20_NonEmptyPredicate ==
  (pPhase = "returned" /\ \A f \in DOMAIN pIn.options : pIn.options[f] # "")
  => ListsInPreOrder(pOut.results, pIn.elements,
       { p \in PathsOf(pIn.elements) :
           /\ ElementAt(pIn.elements, p).clickable
           /\ MatchesAll(ElementAt(pIn.elements, p), pIn.options) })

\* the model output carries no command: no JSON command list and no labelled
\* command section
NoCommandsSupplied ==
  IF nRaw.choices /\ nRaw.content = "str" /\ nRaw.jsonKind = "object"
  THEN ~Has(nRaw.json, "commands") \/ nRaw.json["commands"] = <<>>
  ELSE ~nRaw.choices \/ nRaw.content # "str" \/ nRaw.cmdSec = ""

\* the model output carries no thinking text
NoThinkingSupplied ==
  IF nRaw.choices /\ nRaw.content = "str" /\ nRaw.jsonKind = "object"
  THEN ~Has(nRaw.json, "thinking") \/ nRaw.json["thinking"] = ""
  ELSE ~nRaw.choices \/ nRaw.content # "str" \/ nRaw.thinkSec = ""

JsonFailed ==
  /\ nPhase = "parsed"
  /\ nRaw.choices /\ nRaw.content = "str"
  /\ nRaw.jsonKind \in {"nomatch", "syntaxerror", "badcommands"}

\* C22 (first half): after a failed JSON attempt a labelled command section
\* becomes exactly one command of type text that carries the section.
C22_FallbackCommand ==
  (JsonFailed /\ nRaw.cmdSec # "")
  => nOut["commands"] = <<[type |-> "text", text |-> nRaw.cmdSec]>>

\* C22: when JSON extraction / parsing fails the labelled sections are used
\* and a recovered command section becomes exactly one text command; when the
\* fallback recovers nothing either, the response has an empty command list
\* and its error field is set.
C22_FallbackOrError ==
  /\ C22_FallbackCommand
  /\ (JsonFailed /\ nRaw.cmdSec = "" /\ nRaw.thinkSec = "")
     => /\ nOut["commands"] = <<>>
        /\ Has(nOut, "error")

\* position of the last event named name in tr (0 if none)
LastPos(tr, name) ==
  LET S == {j \in DOMAIN tr : tr[j].ev = name}
  IN IF S = {} THEN 0 ELSE CHOOSE j \in S : \A l \in S : l <= j

\* an event that shows a failure to the page: an error notice, a response
\* that carries an error field, or a command-result with an error
Surfaces(e) ==
  \/ e.ev = "error"
  \/ e.ev \in {"instruction-response", "error-correction-end"} /\ Has(e.arg, "error")
  \/ e.ev = "command-result" /\ ~e.ok /\ e.arg.error # ""

SurfacedAfter(tr, j) == \E l \in DOMAIN tr : l >= j /\ Surfaces(tr[l])

\* the latest round-trip ended in the error response of the normalizer
NormalizerFailedLast ==
  /\ lastRoundTrip # EmptyObj
  /\ lastRoundTrip.parsedResponse["thinking"] = FailedThinking

\* C23 (thrown failures): a failed capture, a failed model call and a failed
\* dispatch are each followed by an error notice or are a command-result
\* that carries the error, in every kind of round.
C23_ThrownFailuresSurface ==
  \A t \in Tasks : \A j \in Positions(t) :
    /\ trace[t][j].ev \in {"capture-failed", "model-failed"}
         => \E l \in Positions(t) : l > j /\ trace[t][l].ev = "error"
    /\ (trace[t][j].ev = "command-result" /\ ~trace[t][j].ok) => Surfaces(trace[t][j])

\* C23: every failure while an instruction is processed (capture, gateway,
\* normalizer, dispatch; initial, continuation or correction round) is shown
\* to the page as an error notice or as an error field of an emitted response
\* or command-result: none ends without such an event.
C23_EveryFailureSurfaces ==
  /\ C23_ThrownFailuresSurface
  /\ NormalizerFailedLast
       => \A t \in Tasks :
            LastPos(trace[t], "model") > 0
            => SurfacedAfter(trace[t], LastPos(trace[t], "model"))

\* the capture or model call logged before position j has thrown at j
IsFatalFailure(e) == e.ev \in {"capture-failed", "model-failed"}

\* nothing more is done for the instruction after position j
HaltedAfter(tr, j) ==
  \A l \in DOMAIN tr : l > j => tr[l].ev \notin {"dispatch", "capture", "model"}

\* C24 (initial and continuation rounds): the failure is reported by the
\* send-instruction handler and ends the instruction.
C24_MainRoundFatal ==
  \A t \in Tasks : \A j \in Positions(t) :
    (/\ IsFatalFailure(trace[t][j])
     /\ j < Len(trace[t])
     /\ trace[t][j + 1].arg.scope = "instruction")
    => HaltedAfter(trace[t], j)

\* C24: a capture failure or a gateway failure in any round (initial,
\* continuation, correction) is fatal: an error notice is emitted at once,
\* the failed call is not made again and no further device command, capture
\* or model call happens for that instruction.
C24_FailureHaltsLoop ==
  \A t \in Tasks : \A j \in Positions(t) :
    IsFatalFailure(trace[t][j])
    => /\ j < Len(trace[t])
       /\ trace[t][j + 1].ev = "error"
       /\ HaltedAfter(trace[t], j)

ViewFields == {"instruction", "timestamp", "thinking", "commands"}

\* view is what get-history-by-id may show of the stored history item
ViewOf(view, item) ==
  /\ DOMAIN view \subseteq ViewFields
  /\ view["instruction"] = item["instruction"]
  /\ view["thinking"] = item["parsedResponse"]["thinking"]
  /\ view["commands"] = item["parsedResponse"]["commands"]

\* the latest response answers its request as the session surface promises
Answered ==
  LET id == reply.to.sessionId
  IN /\ reply.to.route = "GET"
        => IF Has(sessions, id)
           THEN LET h == HistoryOf(ctxObjs, histArrs, sessions[id])
                IN /\ reply.status = 200
                   /\ Len(reply.history) = Len(h)
                   /\ \A k \in DOMAIN h : ViewOf(reply.history[k], h[k])
           ELSE reply.status = 404 /\ ~reply.success
     /\ reply.to.route = "DELETE"
        => /\ reply.status = 200
           /\ reply.success
           /\ ~Has(sessions, id)

\* C25: get-history-by-id returns for each stored item only instruction,
\* timestamp, thinking and commands, never a capture, and answers not-found
\* for an id that is not in the store; delete-history-by-id leaves the id
\* absent from the store, so that a get that follows answers not-found, and
\* succeeds also for an id that is not in the store.  Stated for every step
\* that sends a response.
C25_SessionQueries == [][reply' # reply => Answered']_vars

\* a get has answered not-found for the id of a session that an instruction
\* had created and filled: the session was deleted before the get
C25_Witness ==
  /\ reply # EmptyObj
  /\ reply.to.route = "GET"
  /\ reply.status = 404
  /\ \E i \in DOMAIN reqs :
       /\ reqs[i].stage = "done"
       /\ ctxObjs[reqs[i].ctx]["id"] = reply.to.sessionId

\* a get has returned the history of a session that holds an item
C25_GetWitness ==
  /\ reply # EmptyObj
  /\ reply.to.route = "GET"
  /\ reply.status = 200
  /\ Len(reply.history) > 0

\* C26: a session that was cleared stays absent from the store until a later
\* instruction creates a session: the store gains an id only in a step that
\* starts an instruction request, never in the step in which a request that
\* was already in flight finishes.
C26_ClearedStaysAbsent ==
  [][(DOMAIN sessions' \subseteq DOMAIN sessions) \/ Len(reqs') > Len(reqs)]_vars

\* a capture entry of a history item is a timestamp and nothing else
IsReference(entry) == DOMAIN entry = {"timestamp"}

\* a response entry of a history item is in condensed form
IsCondensed(resp) ==
  /\ DOMAIN resp \subseteq {"thinking", "commands", "result", "isTaskComplete"}
  /\ StrLen(resp["thinking"]) <= ThinkingKeep
  /\ \A i \in DOMAIN resp["commands"] :
       DOMAIN resp["commands"][i] \subseteq {"type", "isTaskComplete"}

\* C27: every item kept in a session history holds only a timestamp for the
\* screenshot and for the UI capture, never the image data or the element
\* tree, and holds the response in condensed form: thinking truncated,
\* commands reduced to type and isTaskComplete.
C27_LightweightHistory ==
  \A a \in DOMAIN histArrs : \A k \in DOMAIN histArrs[a] :
    LET item == histArrs[a][k]
    IN /\ IsReference(item.screenshot)
       /\ IsReference(item.uiElements)
       /\ IsCondensed(item.parsedResponse)

\* a history holds an item whose thinking was cut and an item whose commands
\* were reduced
C27_Witness ==
  \E a \in DOMAIN histArrs : \E k, l \in DOMAIN histArrs[a] :
    /\ histArrs[a][k].parsedResponse["thinking"] = LongThinkingHead
    /\ Len(histArrs[a][l].parsedResponse["commands"]) > 0
    /\ histArrs[a][l].parsedResponse["commands"][1]["type"] = "tap"

\* the event after which the loop of an instruction may be over: a command
\* marked complete has succeeded, a round has returned no command, or a
\* failure has been reported
EndsLoop(e) ==
  \/ IsResult(e, MainPrefix, TRUE) /\ MarkedComplete(e.cmd)
  \/ e.ev = "instruction-response" /\ Len(e.arg["commands"]) = 0
  \/ e.ev = "model" /\ e.arg.mode = "continue"
  \/ e.ev = "task-result"
  \/ e.ev \in {"error", "error-correction-end"}

\* C28: there is no cap on continuation rounds.  Every success of a command
\* of the main loop that is not marked complete is followed at once by the
\* capture of a continuation round, however many rounds there have been; the
\* loop of an instruction is over only after a command marked complete has
\* succeeded, a round has returned an empty command list or a failure has
\* occurred, so it never ends while the model keeps answering with commands
\* that are not marked complete and nothing fails.
C28_NoContinuationCap ==
  \A t \in Tasks :
    /\ \A j \in Positions(t) :
         (IsResult(trace[t][j], MainPrefix, TRUE) /\ MarkedNotComplete(trace[t][j].cmd))
         => /\ j < Len(trace[t])
            /\ trace[t][j + 1].ev = "capture"
            /\ trace[t][j + 1].arg = "continue"
    /\ tstate[t] = "done" => EndsLoop(trace[t][Len(trace[t])])

\* every command so far has succeeded and none was marked complete, every
\* round has answered with commands, and after as many round-trips as the
\* model explores the loop has asked the model again
C28_Witness ==
  \E t \in Tasks :
    /\ rounds = limits.rounds
    /\ Awaiting(t, "ai")
    /\ Count(trace[t], "model") = limits.rounds + 1
    /\ Count(trace[t], "command-result") = limits.rounds
    /\ \A j \in Positions(t) :
         trace[t][j].ev = "command-result"
         => (trace[t][j].ok /\ MarkedNotComplete(trace[t][j].cmd))

\* a correction round opens with its capture and closes with
\* error-correction-end or with the error notice of handleErrorCorrection
OpensRound(e) == e.ev = "capture" /\ e.arg = "correct"

ClosesRound(e) ==
  \/ e.ev = "error-correction-end"
  \/ e.ev = "error" /\ e.arg.scope = "correction"

\* every correction round opened strictly between s and d is closed before d
Balanced(tr, s, d) ==
  Cardinality({i \in (s + 1)..(d - 1) : OpensRound(tr[i])})
    = Cardinality({i \in (s + 1)..(d - 1) : ClosesRound(tr[i])})

\* the position at which the correction round that closes at e was opened
OpenerOf(tr, e) ==
  LET S == {s \in 1..(e - 1) : OpensRound(tr[s]) /\ Balanced(tr, s, e)}
  IN IF S = {} THEN 0 ELSE CHOOSE s \in S : \A l \in S : l <= s

\* the dispatches of the round opened at s and closed at e itself, not those
\* of the rounds nested in it
OwnDispatches(tr, s, e) ==
  {d \in (s + 1)..(e - 1) : tr[d].ev = "dispatch" /\ Balanced(tr, s, d)}

\* C29: the corrective commands of a correction round are dispatched in
\* list order through the single-command path (command-start, dispatch,
\* command-result), each of them whatever the outcome and the flags of the
\* ones before it; no result of a corrective command is followed by a
\* continuation round; error-correction-end is emitted only after all of
\* them have been attempted.
C29_CorrectiveCommands ==
  \A t \in Tasks : \A e \in Positions(t) :
    LET tr == trace[t]
    IN /\ tr[e].ev = "error-correction-end"
          => LET s == OpenerOf(tr, e)
                 own == OwnDispatches(tr, s, e)
                 cs == tr[e].arg["commands"]
             IN /\ s > 0
                /\ Cardinality(own) = Len(cs)
                /\ \A d \in own :
                     /\ tr[d].cmd = cs[Cardinality({d2 \in own : d2 <= d})]
                     /\ tr[d].arg = CorrectionPrefix
                     /\ tr[d - 1].ev = "command-start"
                     /\ \E k \in (d + 1)..(e - 1) :
                          tr[k].ev = "command-result" /\ tr[k].cmd = tr[d].cmd
       /\ (tr[e].ev = "command-result" /\ tr[e].arg.by = CorrectionPrefix /\ e < Len(tr))
          => ~(tr[e + 1].ev = "capture" /\ tr[e + 1].arg = "continue")

\* a correction round has ended whose first corrective command was marked
\* complete and succeeded and whose second command was dispatched after it
C29_Witness ==
  \E t \in Tasks : \E e, k \in Positions(t) :
    /\ trace[t][e].ev = "error-correction-end"
    /\ Len(trace[t][e].arg["commands"]) = 2
    /\ MarkedComplete(trace[t][e].arg["commands"][1])
    /\ k < e
    /\ IsResult(trace[t][k], CorrectionPrefix, TRUE)
    /\ trace[t][k].cmd = trace[t][e].arg["commands"][1]
    /\ k + 2 < e
    /\ trace[t][k + 2].ev = "dispatch"

\* the trace without the note of the disconnect
Served(tr) == SelectSeq(tr, LAMBDA e : e.ev # "disconnect")

\* the step notes a disconnect in the trace of instruction t
IsDisconnect(t) ==
  /\ Len(trace'[t]) = Len(trace[t]) + 1
  /\ trace'[t][Len(trace'[t])].ev = "disconnect"

\* the loop goes on as if the page were there: a successful command that is
\* not marked complete is followed by the capture of a continuation round,
\* and the handler ends only for the reasons it ends for with the page
RunsRegardless(t) ==
  LET tr == Served(trace[t])
  IN /\ \A j \in DOMAIN tr :
          (IsResult(tr[j], MainPrefix, TRUE) /\ MarkedNotComplete(tr[j].cmd))
          => /\ j < Len(tr)
             /\ tr[j + 1].ev = "capture"
             /\ tr[j + 1].arg = "continue"
     /\ tstate[t] = "done" => EndsLoop(tr[Len(tr)])

\* C30: a disconnect of the originating client does not cancel the loop.  The
\* step of the disconnect changes no loop state (suspended calls, session
\* context, history); afterwards the commands already queued are still
\* dispatched and continuation rounds are still issued: the loop runs and
\* ends as it does with the page connected.
C30_DisconnectKeepsLoop ==
  /\ [](\A t \in Tasks : RunsRegardless(t))
  /\ [][\A t \in Tasks :
          IsDisconnect(t)
          => UNCHANGED <<stack, tstate, sockCtx, rounds, ctxObjs, histArrs>>]_vars

\* after the disconnect a continuation round was started and a command that
\* was queued before the disconnect was dispatched
C30_Witness ==
  \E t \in Tasks : \E r, d, c, q \in Positions(t) :
    /\ trace[t][r].ev = "instruction-response"
    /\ Len(trace[t][r].arg["commands"]) = 2
    /\ r < d
    /\ trace[t][d].ev = "disconnect"
    /\ d < c
    /\ trace[t][c].ev = "capture"
    /\ trace[t][c].arg = "continue"
    /\ c < q
    /\ trace[t][q].ev = "dispatch"
    /\ trace[t][q].cmd = trace[t][r].arg["commands"][2]
    /\ Count(trace[t], "instruction-response") = 1
\* the configuration of the call is complete
Configured(env) ==
  /\ EnvOr(env, "LLM_API_KEY") # ""
  /\ EnvOr(env, "LLM_MODEL") # ""
  /\ EnvOr(env, "LLM_ENDPOINT") # ""

\* C31: a call of the gateway sends at most one request; without endpoint,
\* credential or model name it fails and sends none; when the one request
\* fails (another status than 2xx, or no response) the call fails with that
\* very error and no second request is sent.
C31_AtMostOneRequest ==
  pPhase = "returned" /\ Has(pIn, "env")
  => /\ Len(pOut.calls) <= 1
     /\ ~Configured(pIn.env)
        => (~pOut.ok /\ pOut.calls = <<>> /\ pOut.err = PlainError(ConfigErrorMsg))
     /\ Configured(pIn.env)
        => /\ Len(pOut.calls) = 1
           /\ pOut \in PostSettles(pOut.calls[1])
           /\ pOut.calls[1].endpoint = pIn.env["LLM_ENDPOINT"]

\* a configured call whose request was answered with status 500 has failed
\* with that error after one request
C31_Witness ==
  /\ pPhase = "returned"
  /\ Has(pIn, "env")
  /\ Configured(pIn.env)
  /\ ~pOut.ok
  /\ pOut.err = StatusError(500)
  /\ Len(pOut.calls) = 1

\* the lines of a kind, in order
LinesOf(lines, kind) == SelectSeq(lines, LAMBDA l : l.kind = kind)

\* the last n items of a list, written out by position
LastItems(arr, n) ==
  LET m == IF Len(arr) < n THEN Len(arr) ELSE n
  IN [i \in 1..m |-> arr[Len(arr) - m + i]]

\* the operation lines name exactly the last `n` items, oldest first
NamesLast(lines, history, n) ==
  LET ops == LinesOf(lines, "operation")
      last == LastItems(history, n)
  IN /\ Len(ops) = Len(last)
     /\ \A i \in DOMAIN ops : ops[i].text = last[i]["instruction"]

RECURSIVE Concat(_)
Concat(ss) == IF ss = <<>> THEN <<>> ELSE Head(ss) \o Concat(Tail(ss))

ChildrenOf(node) == IF Has(node, "children") THEN node["children"] ELSE <<>>

\* the first five children of a node
FirstFive(node) ==
  [i \in 1..(IF Len(ChildrenOf(node)) < 5 THEN Len(ChildrenOf(node)) ELSE 5) |->
     ChildrenOf(node)[i]]

TypeShown(node) == IF node["type"] = "" THEN UnknownType ELSE node["type"]

\* the values of the lines of a kind at an indent, in order
ValuesAt(lines, kind, indent) ==
  LET sel == SelectSeq(lines, LAMBDA l : l.kind = kind /\ l.indent = indent)
  IN [i \in DOMAIN sel |-> sel[i].value]

\* the marker of a node: its number of children beyond five, when there are
Marker(node) ==
  IF Len(ChildrenOf(node)) > 5 THEN <<Len(ChildrenOf(node)) - 5>> ELSE <<>>

\* C32: the history context of the instruct prompt names the last 3 items at
\* most and that of the correct prompt the last 1, oldest first, and no
\* thinking in it is longer than 1000 characters; the rendering of an element
\* tree shows of every node the first 5 children at most, in order, and has
\* the marker "N omitted" exactly for the nodes with more than 5 children,
\* with N the number of children minus 5.
C32_BoundedPrompt ==
  pPhase = "returned" /\ Has(pIn, "fn")
  => /\ pIn.fn = "instruct"
        => /\ NamesLast(pOut.contextPrompt, pIn.history, 3)
           /\ \A i \in DOMAIN pOut.contextPrompt :
                pOut.contextPrompt[i].kind = "analysis"
                => StrLen(pOut.contextPrompt[i].text) <= 1000
     /\ pIn.fn = "correct"
        => /\ NamesLast(pOut.recentHistoryPrompt, pIn.history, 1)
           /\ LinesOf(pOut.recentHistoryPrompt, "analysis") = <<>>
     /\ (pIn.fn = "format" /\ Has(pIn.uiElements, "elements"))
        => LET root == pIn.uiElements["elements"]
               shown == FirstFive(root)
           IN /\ ValuesAt(pOut.text, "type", 0) = <<TypeShown(root)>>
              /\ ValuesAt(pOut.text, "type", 1)
                   = [i \in DOMAIN shown |-> TypeShown(shown[i])]
              /\ ValuesAt(pOut.text, "id", 2)
                   = Concat([i \in DOMAIN shown |->
                               [k \in DOMAIN FirstFive(shown[i]) |->
                                  FirstFive(shown[i])[k]["id"]]])
              /\ ValuesAt(pOut.text, "omitted", 0) = Marker(root)
              /\ ValuesAt(pOut.text, "omitted", 1)
                   = Concat([i \in DOMAIN shown |-> Marker(shown[i])])
              /\ \A i \in DOMAIN pOut.text : pOut.text[i].indent <= 2

\* an instruct prompt built from a history of four items, whose cut thinking
\* is in it
C32_Witness ==
  /\ pPhase = "returned"
  /\ Has(pIn, "fn")
  /\ pIn.fn = "instruct"
  /\ Len(pIn.history) >= 4
  /\ \E i \in DOMAIN pOut.contextPrompt : pOut.contextPrompt[i].text = HugeThinkingHead

\* a rendering of a root with more than five children whose first child has
\* more than five children as well
C32_RenderWitness ==
  /\ pPhase = "returned"
  /\ Has(pIn, "fn")
  /\ pIn.fn = "format"
  /\ Has(pIn.uiElements, "elements")
  /\ Len(pIn.uiElements["elements"]["children"]) > 5
  /\ Len(ChildrenOf(pIn.uiElements["elements"]["children"][1])) > 5

\* the root node of the capture is absent
RootAbsent(capture) ==
  \/ Falsy(capture.parsed)
  \/ ~Has(capture.parsed, "hierarchy")
  \/ ~Has(capture.parsed["hierarchy"], "node")
  \/ Falsy(capture.parsed["hierarchy"]["node"])

\* the children of a raw node that are nodes, in the order of the capture
RawChildren(node) ==
  IF ~Has(node, "node") THEN <<>>
  ELSE SelectSeq(ChildNodes(node), LAMBDA c : ~Falsy(c))

RECURSIVE Mirrors(_, _, _)
\* element is the image of the raw node at depth d: its children are the
\* images of the node's children, one for one and in their order, at d + 1
Mirrors(element, node, d) ==
  /\ element.depth = d
  /\ element.type = node["class"]
  /\ Len(element.children) = Len(RawChildren(node))
  /\ \A i \in DOMAIN element.children :
       Mirrors(element.children[i], RawChildren(node)[i], d + 1)

\* C33: the element tree has the root at depth 0, every child one deeper
\* than its parent and the children of every node in the order of the raw
\* capture; when the root node of the capture is absent the call fails and
\* returns no element tree.
C33_ParseLayout ==
  pPhase = "returned" /\ Has(pIn, "failed") /\ ~pIn.failed
  => IF RootAbsent(pIn)
     THEN ~pOut.ok /\ pOut.err = InvalidHierarchyMsg /\ pOut.result = NoResult
     ELSE /\ pOut.ok
          /\ Mirrors(pOut.result["elements"], pIn.parsed["hierarchy"]["node"], 0)

\* a tree was built whose root has two children of different classes, the
\* first of which has a child of its own
C33_Witness ==
  /\ pPhase = "returned"
  /\ Has(pIn, "failed")
  /\ pOut.ok
  /\ LET root == pOut.result["elements"]
     IN /\ Len(root.children) = 2
        /\ root.children[1].type # root.children[2].type
        /\ Len(root.children[1].children) = 1
        /\ root.children[1].children[1].depth = 2

IsStart(e) == e.ev = "command-start"

IsStartOrResult(e) == e.ev \in {"command-start", "command-result"}

\* the nearest position after j (before j) that holds a command-start or a
\* command-result, 0 when there is none
NextStartOrResult(tr, j) ==
  LET S == {k \in DOMAIN tr : k > j /\ IsStartOrResult(tr[k])}
  IN IF S = {} THEN 0 ELSE CHOOSE k \in S : \A l \in S : k <= l

PrevStartOrResult(tr, j) ==
  LET S == {k \in DOMAIN tr : k < j /\ IsStartOrResult(tr[k])}
  IN IF S = {} THEN 0 ELSE CHOOSE k \in S : \A l \in S : l <= k

\* the command at position c of the list cmds is cmd
ListsCommand(cmds, cmd) == \E c \in DOMAIN cmds : cmds[c] = cmd

\* C34: within one instruction (1) a command of a batch of the main loop is
\* started only after the instruction-response that carries the batch was
\* emitted; (2) command-start and command-result alternate: after the start
\* of c the next of the two is the result of c, and every result directly
\* answers the start of its command; (3) error-correction-start is emitted
\* only right after the capture of the correction round that follows a failed
\* command-result, and not at all when that capture fails.
C34_EventOrder ==
  \A t \in Tasks :
    LET tr == trace[t]
    IN /\ \A s \in DOMAIN tr :
            (IsStart(tr[s]) /\ tr[s].arg = MainPrefix)
            => \E r \in 1..(s - 1) :
                 /\ tr[r].ev = "instruction-response"
                 /\ ListsCommand(tr[r].arg["commands"], tr[s].cmd)
       /\ \A s \in DOMAIN tr :
            IsStart(tr[s])
            => LET k == NextStartOrResult(tr, s)
               IN /\ k = 0 => Awaiting(t, "exec")
                  /\ k # 0 => /\ tr[k].ev = "command-result"
                              /\ tr[k].cmd = tr[s].cmd
                              /\ tr[k].arg.by = tr[s].arg
       /\ \A k \in DOMAIN tr :
            tr[k].ev = "command-result"
            => LET s == PrevStartOrResult(tr, k)
               IN s # 0 /\ IsStart(tr[s]) /\ tr[s].cmd = tr[k].cmd
       /\ \A e \in DOMAIN tr :
            tr[e].ev = "error-correction-start"
            => /\ e > 2
               /\ tr[e - 1].ev = "capture" /\ tr[e - 1].arg = "correct"
               /\ tr[e - 2].ev = "command-result" /\ ~tr[e - 2].ok
       /\ \A e \in DOMAIN tr :
            (tr[e].ev = "capture-failed" /\ e > 1 /\ tr[e - 1].arg = "correct")
            => /\ e < Len(tr)
               /\ tr[e + 1].ev = "error"
               /\ Count(SubSeq(tr, 1, e + 1), "error-correction-start")
                    = Count(SubSeq(tr, 1, e - 1), "error-correction-start")

\* a command of the second batch failed, the capture of its correction round
\* succeeded and error-correction-start was emitted
C34_Witness ==
  \E t \in Tasks : \E e \in Positions(t) :
    /\ trace[t][e].ev = "error-correction-start"
    /\ Count(SubSeq(trace[t], 1, e), "instruction-response") = 2
    /\ Count(SubSeq(trace[t], 1, e), "command-start") >= 2

\* the error notice of a correction round that had emitted its start: the
\* notice that follows a failed correction capture belongs to a round that
\* never started
IsNoticeOfStarted(tr, j) ==
  /\ tr[j].ev = "error"
  /\ tr[j].arg.scope = "correction"
  /\ ~(tr[j - 1].ev = "capture-failed" /\ tr[j - 2].arg = "correct")

\* the correction rounds that have emitted their start and neither
\* error-correction-end nor their error notice, up to position n of the trace
Pending(tr, n) ==
  Cardinality({j \in 1..n : tr[j].ev = "error-correction-start"})
    - Cardinality({j \in 1..n : tr[j].ev = "error-correction-end"})
    - Cardinality({j \in 1..n : IsNoticeOfStarted(tr, j)})

\* the responses the loop can get from the normalizer
LoopResponses == { parseModelResponse(raw) : raw \in limits.raws }

\* no failure inside a correction round reaches the catch of the handler, a
\* finished instruction has no round left open, no round is closed twice and
\* error-correction-end carries a response
CorrectionContained(t) ==
  LET tr == trace[t]
  IN /\ \A j \in DOMAIN tr :
          (tr[j].ev = "error" /\ tr[j].arg.scope = "instruction")
          => /\ j > 2
             /\ tr[j - 1].ev \in {"capture-failed", "model-failed"}
             /\ tr[j - 2].ev = "capture" => tr[j - 2].arg # "correct"
             /\ tr[j - 2].ev = "model" => tr[j - 2].arg.mode # "correct"
             /\ Pending(tr, j) = 0
     /\ \A n \in DOMAIN tr : Pending(tr, n) >= 0
     /\ \A n \in DOMAIN tr :
          tr[n].ev \in {"capture-failed", "model-failed"}
          => n < Len(tr) /\ tr[n + 1].ev = "error"
     /\ tstate[t] = "done" => Pending(tr, Len(tr)) = 0
     /\ \A e \in DOMAIN tr :
          tr[e].ev = "error-correction-end" => tr[e].arg \in LoopResponses

SocketContext ==
  IF sockCtx = 0 THEN <<>>
  ELSE <<[history |-> HistoryOf(ctxObjs, histArrs, sockCtx),
          lastOperation |-> ctxObjs[sockCtx].lastOperation]>>

SocketHistory == HistoryOf(ctxObjs, histArrs, sockCtx)

\* the step in which callLLMAPI threw for some instruction
GatewayFailed ==
  \E t \in Tasks :
    /\ Len(trace'[t]) > Len(trace[t])
    /\ trace'[t][Len(trace[t]) + 1].ev = "model-failed"

\* the step in which handleAIInstruction returned a response
ResponseReturned == rounds' = rounds + 1

\* the history gained the item of the round-trip as its newest entry
OneItemAppended ==
  SocketHistory' = SliceLast(Append(SocketHistory, lastRoundTrip'), MAX_CONTEXT_ITEMS)

\* a round-trip whose gateway call fails leaves history and lastOperation
\* of the conversation as they were, and so does every step that is no
\* returned round-trip
C36_FailureKeepsContext ==
  [][/\ GatewayFailed => SocketContext' = SocketContext
     /\ ~ResponseReturned => SocketContext' = SocketContext]_vars

\* from the second returned round-trip of the conversation on, exactly one
\* item is appended per round-trip
C36_LaterRoundTrips ==
  [][(ResponseReturned /\ rounds >= 1) => OneItemAppended]_vars

\* C36: a round-trip whose gateway call fails leaves the SessionContext
\* unchanged (no history item, no new lastOperation), and a round-trip that
\* returns a response appends exactly one history item.
C36_ContextPerRoundTrip ==
  [][/\ GatewayFailed => SocketContext' = SocketContext
     /\ ResponseReturned => OneItemAppended]_vars


\* the loop of an instruction whose socket is connected has ended and no
\* other loop is running
LoopsEnded ==
  /\ \E t \in Tasks : tstate[t] = "done" /\ Connected(t)
  /\ \A t \in Tasks : tstate[t] # "running"

\* the step in which the page emits send-instruction
SendsInstruction ==
  \E t \in Tasks : tstate[t] = "idle" /\ tstate'[t] = "running"

\* the page never emits send-instruction while its processing flag is set
C37_NoSendWhileProcessing ==
  [][SendsInstruction => ~isProcessing]_vars

\* C37: whenever the server's loop for an instruction has ended, the page has
\* received an event that clears its processing flag, so that the next
\* instruction can be submitted.
C37_EndedLoopClearsFlag ==
  LoopsEnded => ~isProcessing


\* the context objects the POST handler has created, one per request that
\* carried no session id or an unknown one
CreatedContexts == DOMAIN ctxObjs

\* two created sessions have different ids
DistinctIds ==
  \A a, b \in CreatedContexts : a # b => ctxObjs[a].id # ctxObjs[b].id

\* an entry of the session store is never replaced by another context
NoOverwrite ==
  \A k \in DOMAIN sessions : Has(sessions', k) => sessions'[k] = sessions[k]

\* two created sessions never share a history list
C38_SeparateHistories ==
  \A a, b \in CreatedContexts :
    (a # b /\ ctxObjs[a].history # 0) => ctxObjs[a].history # ctxObjs[b].history

\* C38: two instruction requests that carry no session id, or an unknown one,
\* get two sessions with distinct ids, also at the same clock reading, and
\* creating a session never overwrites an entry of the session store.
C38_FreshSessions ==
  /\ []DistinctIds
  /\ [][NoOverwrite]_vars


\* one of the three repairs changed the command
WasRepaired(c) == normalizeCommand(c) # c

\* C39: normalizeCommand applied to its own output returns an equal command,
\* and the raw command object passed in keeps all its fields with their
\* values.
C39_Idempotent ==
  /\ pPhase \in {"once", "twice"} => pIn.cmd = pIn.original
  /\ pPhase = "twice"
     => /\ pOut.second = pOut.first
        /\ pOut.first = normalizeCommand(pIn.original)

\* both calls have returned for a raw command that the first call repaired:
\* a renamed action whose coordinate list became canonical coordinates
C39_Witness ==
  /\ pPhase = "twice"
  /\ WasRepaired(pIn.original)
  /\ Has(pIn.original, "action") /\ ~Has(pOut.first, "action")
  /\ Has(pIn.original, "coordinate") /\ ~Has(pOut.second, "coordinate")


\* the commands field is missing, is no list, or is the empty list
NoCommandList(cmd) ==
  \/ IsUndefined(cmd.commands)
  \/ ~IsArrayValue(cmd.commands[1])
  \/ Len(cmd.commands[1].v) = 0

\* C40: a composite command whose commands field is missing, not a list, or
\* an empty list fails, with the error of the composite guard, without any
\* transport call being made.
C40_EmptyCompositeFails ==
  (pPhase = "returned" /\ NoCommandList(pIn))
  => /\ ~pOut.ok
     /\ pOut.err = EmptyCompositeMsg
     /\ pOut.calls = <<>>

\* the call has failed for a composite whose commands field is no list
C40_Witness ==
  /\ pPhase = "returned"
  /\ ~IsUndefined(pIn.commands)
  /\ ~IsArrayValue(pIn.commands[1])
  /\ ~pOut.ok

\* the call has failed for a composite with an empty list, and for one
\* without the field
C40_EmptyListWitness ==
  /\ pPhase = "returned"
  /\ ~pOut.ok
  /\ \/ IsUndefined(pIn.commands)
     \/ (IsArrayValue(pIn.commands[1]) /\ pIn.commands[1].v = <<>>)

====
